---- MODULE Spec2Model ----
(***************************************************************************)
(* A model of the qui dashboard (src/src/app.rs, kube_client.rs, main.rs,  *)
(* events.rs): the embedded shell session (pty writer, reader thread,      *)
(* mpsc channel, vt100 parser), the App state machine and the render loop. *)
(***************************************************************************)
EXTENDS Integers, Sequences, FiniteSets, TLC

\* ------------------------------------------------------------------ bounds
\* Bytes a remote process outputs during one session: of the session on its
\* own, and of a session of the running dashboard.
MaxBytes == 3
MaxShellBytes == 1
\* Bytes written to one session's pty writer.
MaxWritten == 2
\* Sessions opened during one run of the dashboard.
MaxSessions == 2
MaxShells == 1

VARIABLES
    app,    \* the App struct (app.rs 27-54)
    sess,   \* session id -> TerminalSession with its channel, thread and child
    loop,   \* run_app: position in the loop body and its result
    op      \* the TerminalSession call the main thread is in

vars == <<app, sess, loop, op>>

\* Option<T>
None == <<>>
Some(x) == <<x>>

SessionIds == 1..MaxSessions

\* ------------------------------------------------------------------ keys
\* A crossterm KeyEvent: its code and whether CONTROL is among the modifiers.
\* KeyCode::Char(c) is the one-character string c.
Key(code, ctrl) == [code |-> code, ctrl |-> ctrl]

\* The UTF-8 bytes of the characters the model types.
CharBytes ==
    [c \in {"a", "c", "d", "z", "l", "x", "q", "e", "f", "h", "j", "k", "n",
            "r", "s", "1", "2", "3", "4", "5", "7", "?", "é"} |->
        CASE c = "a" -> <<97>>  [] c = "c" -> <<99>>  [] c = "d" -> <<100>>
          [] c = "z" -> <<122>> [] c = "l" -> <<108>> [] c = "x" -> <<120>>
          [] c = "q" -> <<113>> [] c = "e" -> <<101>> [] c = "f" -> <<102>>
          [] c = "h" -> <<104>> [] c = "j" -> <<106>> [] c = "k" -> <<107>>
          [] c = "n" -> <<110>> [] c = "r" -> <<114>> [] c = "s" -> <<115>>
          [] c = "1" -> <<49>>  [] c = "2" -> <<50>>  [] c = "3" -> <<51>>
          [] c = "4" -> <<52>>  [] c = "5" -> <<53>>  [] c = "7" -> <<55>>
          [] c = "?" -> <<63>> [] c = "é" -> <<195, 169>>]

Chars == DOMAIN CharBytes

\* send_input's match with a line feed for Enter.
encode_line_feed(key) ==
    IF key.code \in Chars
    THEN IF key.ctrl
         THEN CASE key.code = "c" -> <<3>>
                [] key.code = "d" -> <<4>>
                [] key.code = "z" -> <<26>>
                [] key.code = "l" -> <<12>>
                [] OTHER -> <<>>
         ELSE CharBytes[key.code]
    ELSE CASE key.code = "Enter" -> <<10>>
           [] key.code = "Backspace" -> <<127>>
           [] key.code = "Tab" -> <<9>>
           [] key.code = "Up" -> <<27, 91, 65>>
           [] key.code = "Down" -> <<27, 91, 66>>
           [] key.code = "Right" -> <<27, 91, 67>>
           [] key.code = "Left" -> <<27, 91, 68>>
           [] OTHER -> <<>>

\* send_input's match on the key code: the bytes it puts in buf.
encode(key) ==
    IF key.code \in Chars
    THEN IF key.ctrl
         THEN CASE key.code = "c" -> <<3>>
                [] key.code = "d" -> <<4>>
                [] key.code = "z" -> <<26>>
                [] key.code = "l" -> <<12>>
                [] OTHER -> <<>>
         ELSE CharBytes[key.code]
    ELSE CASE key.code = "Enter" -> <<13>>
           [] key.code = "Backspace" -> <<127>>
           [] key.code = "Tab" -> <<9>>
           [] key.code = "Up" -> <<27, 91, 65>>
           [] key.code = "Down" -> <<27, 91, 66>>
           [] key.code = "Right" -> <<27, 91, 67>>
           [] key.code = "Left" -> <<27, 91, 68>>
           [] OTHER -> <<>>

\* --------------------------------------------------------------- sessions
RECURSIVE Flatten(_)
Flatten(q) == IF q = <<>> THEN <<>> ELSE Head(q) \o Flatten(Tail(q))

\* ------------------------------------------------------------- emulator
\* Parser::new(24, 80, 1000)
Rows == 24
Cols == 80

\* What the remote process writes: its i-th byte, an 'x', ESC [ D, a 'y' and
\* a line feed, over and over.
RemoteStream == <<120, 27, 91, 68, 121, 10>>

OutputByte(i) == RemoteStream[((i - 1) % Len(RemoteStream)) + 1]

\* The vt100 parser: the state of its escape-sequence machine, the cursor
\* and the cells written so far, by row and column.
NewScreen == [mode |-> "ground", row |-> 0, col |-> 0, cells |-> <<>>]

\* A cell of the grid set to byte b.
SetCell(cells, r, c, b) ==
    [q \in DOMAIN cells \cup {<<r, c>>} |->
        IF q = <<r, c>> THEN b ELSE cells[q]]

\* Parser::process on one byte: a printable byte is written at the cursor,
\* which advances; LF, CR and BS move the cursor; ESC starts a sequence, ESC [
\* a control sequence, whose parameter bytes are kept for its final byte:
\* A, B, C, D move the cursor, every other sequence is consumed.
ProcessByte(st, b) ==
    CASE st.mode = "ground" ->
           (CASE b = 27 -> [st EXCEPT !.mode = "escape"]
              [] b = 10 -> [st EXCEPT !.row = IF @ + 1 < Rows THEN @ + 1 ELSE @]
              [] b = 13 -> [st EXCEPT !.col = 0]
              [] b = 8 -> [st EXCEPT !.col = IF @ > 0 THEN @ - 1 ELSE 0]
              [] b >= 32 /\ b # 127 ->
                   [st EXCEPT !.cells = SetCell(@, st.row, st.col, b),
                              !.col = IF @ + 1 < Cols THEN @ + 1 ELSE @]
              [] OTHER -> st)
      [] st.mode = "escape" ->
           IF b = 91 THEN [st EXCEPT !.mode = "csi"]
           ELSE [st EXCEPT !.mode = "ground"]
      [] OTHER ->
           (CASE b \in 48..59 -> st
              [] b = 65 -> [st EXCEPT !.mode = "ground",
                                      !.row = IF @ > 0 THEN @ - 1 ELSE 0]
              [] b = 66 -> [st EXCEPT !.mode = "ground",
                                      !.row = IF @ + 1 < Rows THEN @ + 1 ELSE @]
              [] b = 67 -> [st EXCEPT !.mode = "ground",
                                      !.col = IF @ + 1 < Cols THEN @ + 1 ELSE @]
              [] b = 68 -> [st EXCEPT !.mode = "ground",
                                      !.col = IF @ > 0 THEN @ - 1 ELSE 0]
              [] OTHER -> [st EXCEPT !.mode = "ground"])

\* Parser::process(&data) forgetting a sequence left unfinished by the chunk
\* before.
RECURSIVE Process_restarting(_, _)
Process_restarting(st, data) ==
    IF data = <<>> THEN [st EXCEPT !.mode = "ground"]
    ELSE Process_restarting(ProcessByte(st, OutputByte(Head(data))),
                            Tail(data))

\* Parser::process(&data): the bytes of the chunk one after the other, the
\* state of the machine kept from chunk to chunk.
RECURSIVE Process(_, _)
Process(st, data) ==
    IF data = <<>> THEN st
    ELSE Process(ProcessByte(st, OutputByte(Head(data))), Tail(data))

\* The largest member of a set of naturals that is not empty.
Largest(S) == CHOOSE m \in S : \A n \in S : n <= m

\* screen.contents().lines(): the text of the rows down to the last row
\* written to, each to its last cell written, an unwritten cell before it a
\* space; the blank rows at the end are not part of contents.
contents_lines(st) ==
    IF DOMAIN st.cells = {} THEN <<>>
    ELSE LET rows == {q[1] : q \in DOMAIN st.cells}
             last(r) == Largest({q[2] : q \in {x \in DOMAIN st.cells :
                                                   x[1] = r}})
         IN  [i \in 1..(Largest(rows) + 1) |->
                 IF i - 1 \in rows
                 THEN [j \in 1..(last(i - 1) + 1) |->
                         IF <<i - 1, j - 1>> \in DOMAIN st.cells
                         THEN st.cells[<<i - 1, j - 1>>] ELSE 32]
                 ELSE <<>>]

\* A slot no session was created in yet. Of a session, st tells whether the
\* TerminalSession exists; parser holds the bytes fed to the vt100 parser,
\* screen what the parser made of them, and
\* written those written to the pty writer; closed is what the last close
\* returned ("" before any); queue is the channel; wpc, wbuf and wexit are
\* the reader thread's position, its chunk in hand and why it left its loop;
\* pty holds the output not read yet, produced counts the bytes output, each
\* byte named by its place in the stream; child is the remote process; lock
\* is the holder of the Mutex around the session.
NoSession ==
    [st |-> "none", parser |-> <<>>, screen |-> NewScreen,
     written |-> <<>>, closed |-> "",
     queue |-> <<>>, wpc |-> "none", wbuf |-> <<>>, wexit |-> "",
     pty |-> <<>>, produced |-> 0, child |-> "none", lock |-> "free"]

\* TerminalSession::new: the pty is open, the child spawned, the channel
\* empty, the reader thread started (blocked in its first read).
TerminalSession_new ==
    [st |-> "open", parser |-> <<>>, screen |-> NewScreen,
     written |-> <<>>, closed |-> "",
     queue |-> <<>>, wpc |-> "read", wbuf |-> <<>>, wexit |-> "",
     pty |-> <<>>, produced |-> 0, child |-> "running", lock |-> "free"]

\* What write_all / flush on the pty writer can answer: an error only once
\* the remote process is gone.
WriteOutcomes(s) ==
    IF s.child = "exited" THEN {"ok", "write_err", "flush_err"} ELSE {"ok"}

\* writer.write_all(bytes)?; writer.flush()?
WriteFlush(s, bytes, io) ==
    CASE io = "write_err" -> [s |-> s, ret |-> "Err"]
      [] io = "flush_err" ->
            [s |-> [s EXCEPT !.written = @ \o bytes], ret |-> "Err"]
      [] OTHER -> [s |-> [s EXCEPT !.written = @ \o bytes], ret |-> "Ok"]

\* send_input up to process_output: encode the key, write and flush when buf
\* is not empty. ret = "Err" is the `?` return, before process_output.
send_input(s, key, io) ==
    LET buf == encode(key)
    IN  IF buf # <<>> THEN WriteFlush(s, buf, io) ELSE [s |-> s, ret |-> "Ok"]

\* process_output taking the newest chunk of the channel first.
process_output_newest_first(s) ==
    IF s.queue # <<>>
    THEN [s |-> [s EXCEPT !.parser = @ \o s.queue[Len(s.queue)],
                          !.screen = Process(@, s.queue[Len(s.queue)]),
                          !.queue = SubSeq(@, 1, Len(@) - 1)],
          more |-> TRUE]
    ELSE [s |-> s, more |-> FALSE]

\* process_output with `if let` for `while let`: it feeds one chunk and
\* returns.
process_output_one_chunk(s) ==
    IF s.queue # <<>>
    THEN [s |-> [s EXCEPT !.parser = @ \o Head(s.queue),
                          !.screen = Process(@, Head(s.queue)),
                          !.queue = Tail(@)],
          more |-> FALSE]
    ELSE [s |-> s, more |-> FALSE]

\* close joining the reader thread: it ends the thread with the session.
close_join(s, io) ==
    [s |-> [s EXCEPT !.written = @ \o <<4>>, !.closed = "Ok",
                     !.wpc = "exited", !.wexit = "joined"],
     ret |-> "Ok"]

\* One turn of process_output's `while let Ok(data) = rx.try_recv()`:
\* a queued chunk is fed to the parser; more = FALSE when try_recv answers
\* Empty or Disconnected and the loop ends.
process_output(s) ==
    IF s.queue # <<>>
    THEN [s |-> [s EXCEPT !.parser = @ \o Head(s.queue),
                          !.screen = Process(@, Head(s.queue)),
                          !.queue = Tail(@)],
          more |-> TRUE]
    ELSE [s |-> s, more |-> FALSE]

\* process_output to its end, no chunk arriving meanwhile.
RECURSIVE Drain(_)
Drain(s) ==
    IF process_output(s).more THEN Drain(process_output(s).s) ELSE s

\* get_screen reading the screen and starting the parser afresh.
get_screen_fresh(s) ==
    [s |-> [Drain(s) EXCEPT !.screen = NewScreen],
     lines |-> contents_lines(Drain(s).screen)]

\* get_screen: process_output, then the lines of the screen's contents.
get_screen(s) ==
    [s |-> Drain(s), lines |-> contents_lines(Drain(s).screen)]

\* close: write the end-of-input byte and flush.
close(s, io) ==
    LET w == WriteFlush(s, <<4>>, io)
    IN  [s |-> [w.s EXCEPT !.closed = w.ret], ret |-> w.ret]

\* Dropping the TerminalSession: the parser, the writer, the child handle and
\* the receiver (queued chunks with it) are gone; the reader thread is
\* detached and the remote process is left to itself. closed stays as the
\* record that close was called on the session.
DropSession(s) ==
    [s EXCEPT !.st = "dropped", !.parser = <<>>, !.screen = NewScreen,
              !.written = <<>>,
              !.queue = <<>>, !.lock = "free"]

\* The reader thread, blocked in reader.read(&mut buf): Ok(n), n > 0, hands it
\* the first n bytes the pty holds.
ReaderRead(s, n) ==
    [s EXCEPT !.wpc = "send", !.wbuf = SubSeq(s.pty, 1, n),
              !.pty = SubSeq(s.pty, n + 1, Len(s.pty))]

\* reader.read answers Ok(0) or Err(_): break.
ReaderEnd(s, how) == [s EXCEPT !.wpc = "exited", !.wexit = how]

\* tx.send(buf[..n].to_vec()): queued while the receiver lives, else break.
ReaderSend(s) ==
    IF s.st = "open"
    THEN [s EXCEPT !.queue = Append(@, s.wbuf), !.wbuf = <<>>, !.wpc = "read"]
    ELSE [s EXCEPT !.wbuf = <<>>, !.wpc = "exited", !.wexit = "peer_gone"]

\* -------------------------------------------------------------------- App
\* Lists of the model.
MaxItems == 2
\* Lines of a pod's log.
MaxLogLines == 1
\* Characters typed into the scale prompt.
MaxDigits == 1

AllNames == <<"a", "b", "c", "d">>

RECURSIVE SortedList(_, _)
\* The names AllNames[i], i in S, in order: what a list call answers.
SortedList(S, i) ==
    IF i > Len(AllNames) THEN <<>>
    ELSE (IF i \in S THEN <<AllNames[i]>> ELSE <<>>) \o SortedList(S, i + 1)

ItemLists == {SortedList(S, 1) : S \in SUBSET (1..MaxItems)}

\* A kubeconfig context entry (ContextInfo): list_contexts fills an empty
\* namespace with "default".
ContextInfo(name) ==
    [name |-> name, namespace |-> IF name = "a" THEN "default" ELSE name]

ContextList(names) == [i \in 1..Len(names) |-> ContextInfo(names[i])]

\* Result<Vec<_>>
OkList(items) == [ok |-> TRUE, items |-> items]
ErrList == [ok |-> FALSE, items |-> <<>>]

saturating_sub(a, b) == IF a > b THEN a - b ELSE 0

\* What a method returns with the state it leaves: ret is "Ok" or "Err" for
\* Result<()>, "Ok(true)", "Ok(false)" or "Err" for Result<bool>.
\* cont: the method is inside send_input's process_output, still to finish.
Ret(a, ss, r) == [app |-> a, sess |-> ss, ret |-> r, cont |-> FALSE]

\* `f(...)?` followed by the rest of the body.
Try(r, Rest(_, _)) == IF r.ret = "Err" THEN r ELSE Rest(r.app, r.sess)

\* refresh_current_view with `?` on the list call: a failure is returned.
refresh_current_view_propagates(a0, ss, lst) ==
    IF lst.ok \/ ~(a0.current_view \in {"Pods", "Deployments", "Services",
                                        "Clusters"})
    THEN Ret(a0, ss, "Ok")
    ELSE Ret(a0, ss, "Err")

\* refresh_current_view storing the new list without the clamp of the index.
refresh_current_view_no_clamp(a0, ss, lst) ==
    LET a == [a0 EXCEPT !.error_message = None]
        failed(msg) == Ret([a EXCEPT !.error_message = Some(msg)], ss, "Ok")
    IN  CASE a.current_view = "Pods" ->
               IF lst.ok THEN Ret([a EXCEPT !.pods = lst.items], ss, "Ok")
               ELSE failed("Failed to list pods")
          [] a.current_view = "Deployments" ->
               IF lst.ok THEN Ret([a EXCEPT !.deployments = lst.items], ss, "Ok")
               ELSE failed("Failed to list deployments")
          [] a.current_view = "Services" ->
               IF lst.ok THEN Ret([a EXCEPT !.services = lst.items], ss, "Ok")
               ELSE failed("Failed to list services")
          [] a.current_view = "Clusters" ->
               IF lst.ok
               THEN Ret([a EXCEPT !.contexts = ContextList(lst.items)], ss, "Ok")
               ELSE failed("Failed to list contexts")
          [] OTHER -> Ret(a, ss, "Ok")

\* refresh_current_view storing an empty list when the call fails
\* (unwrap_or_default for the match).
refresh_current_view_forgets(a0, ss, lst) ==
    LET a == [a0 EXCEPT !.error_message = None]
        failed(msg) == [a EXCEPT !.error_message = Some(msg)]
    IN  CASE a.current_view = "Pods" ->
               Ret([(IF lst.ok THEN a ELSE failed("Failed to list pods"))
                       EXCEPT !.pods = lst.items, !.pod_index = 0], ss, "Ok")
          [] a.current_view = "Deployments" ->
               Ret([(IF lst.ok THEN a ELSE failed("Failed to list deployments"))
                       EXCEPT !.deployments = lst.items,
                              !.deployment_index = 0], ss, "Ok")
          [] a.current_view = "Services" ->
               Ret([(IF lst.ok THEN a ELSE failed("Failed to list services"))
                       EXCEPT !.services = lst.items, !.service_index = 0],
                   ss, "Ok")
          [] a.current_view = "Clusters" ->
               Ret([(IF lst.ok THEN a ELSE failed("Failed to list contexts"))
                       EXCEPT !.contexts = ContextList(lst.items),
                              !.context_index = 0], ss, "Ok")
          [] OTHER -> Ret(a, ss, "Ok")

\* refresh_current_view: lst is what the list call of the current view answers.
refresh_current_view(a0, ss, lst) ==
    LET a == [a0 EXCEPT !.error_message = None]
        clamp(i, l) == IF i >= Len(l) THEN saturating_sub(Len(l), 1) ELSE i
    IN  CASE a.current_view = "Pods" ->
               IF lst.ok
               THEN Ret([a EXCEPT !.pods = lst.items,
                                  !.pod_index = clamp(a.pod_index, lst.items)],
                        ss, "Ok")
               ELSE Ret([a EXCEPT !.error_message = Some("Failed to list pods")],
                        ss, "Ok")
          [] a.current_view = "Deployments" ->
               IF lst.ok
               THEN Ret([a EXCEPT !.deployments = lst.items,
                                  !.deployment_index =
                                      clamp(a.deployment_index, lst.items)],
                        ss, "Ok")
               ELSE Ret([a EXCEPT !.error_message =
                                      Some("Failed to list deployments")],
                        ss, "Ok")
          [] a.current_view = "Services" ->
               IF lst.ok
               THEN Ret([a EXCEPT !.services = lst.items,
                                  !.service_index =
                                      clamp(a.service_index, lst.items)],
                        ss, "Ok")
               ELSE Ret([a EXCEPT !.error_message =
                                      Some("Failed to list services")],
                        ss, "Ok")
          [] a.current_view = "Clusters" ->
               IF lst.ok
               THEN Ret([a EXCEPT !.contexts = ContextList(lst.items),
                                  !.context_index =
                                      clamp(a.context_index, lst.items)],
                        ss, "Ok")
               ELSE Ret([a EXCEPT !.error_message =
                                      Some("Failed to list contexts")],
                        ss, "Ok")
          [] a.current_view = "Namespaces" ->
               Ret([a EXCEPT !.namespace_index =
                                 clamp(a.namespace_index, a.namespaces)],
                   ss, "Ok")
          [] OTHER -> Ret(a, ss, "Ok")

\* App::new once the contexts are read and the client is built: ns is what
\* list_namespaces answers, lst what the first list_pods answers.
App_new(ctxs, cur, ns, lst) ==
    LET namespaces == IF ns.ok /\ ns.items # <<>> THEN ns.items
                      ELSE <<"default">>
        a == [current_view |-> IF ns.ok THEN "Pods" ELSE "Clusters",
              namespaces |-> namespaces,
              current_namespace |-> Head(namespaces),
              namespace_index |-> 0,
              contexts |-> ContextList(ctxs),
              context_index |-> 0,
              current_context |-> cur,
              pods |-> <<>>, pod_index |-> 0,
              deployments |-> <<>>, deployment_index |-> 0,
              services |-> <<>>, service_index |-> 0,
              logs |-> <<>>, logs_scroll |-> 0, logs_follow |-> FALSE,
              logs_pod_name |-> None,
              error_message |-> IF ns.ok THEN None
                                ELSE Some("Failed to connect to cluster"),
              input_mode |-> "Normal",
              input_buffer |-> <<>>,
              status_message |-> "",
              terminal_session |-> None,
              terminal_pod_name |-> None,
              terminal_scroll |-> 0,
              terminal_choice_selection |-> 0]
    IN  IF a.error_message = None
        THEN refresh_current_view(a, [i \in SessionIds |-> NoSession], lst).app
        ELSE a

\* What App::new finds: contexts and current are what list_contexts and
\* get_current_context answer, client whether KubeClient::new succeeds, ns
\* and lst what list_namespaces and the first list_pods answer.
Startup(contexts, current, client, ns, lst) ==
    [contexts |-> contexts, current |-> current, client |-> client,
     ns |-> ns, lst |-> lst]

\* Result<Self> of App::new with the list calls it made.
NewErr(why) == [ok |-> FALSE, app |-> None, why |-> why, calls |-> <<>>]

\* App::new going on past an empty current context.
App_new_result_any_current(c) ==
    LET contexts == IF c.contexts.ok THEN c.contexts.items ELSE <<>>
        current_context == IF c.current.ok THEN c.current.name ELSE ""
    IN  CASE contexts = <<>> -> NewErr("No Kubernetes contexts found")
          [] c.client = "err" ->
               NewErr("Failed to initialize Kubernetes client")
          [] OTHER ->
               [ok |-> TRUE,
                app |-> App_new(contexts, current_context, c.ns, c.lst),
                why |-> "",
                calls |-> IF c.ns.ok THEN <<"list_namespaces", "list_pods">>
                          ELSE <<"list_namespaces">>]

\* App::new: unwrap_or_default makes a failed list_contexts an empty list and
\* a failed get_current_context an empty name; both and a failed
\* KubeClient::new bail out. The refresh is made only when list_namespaces
\* succeeded.
App_new_result(c) ==
    LET contexts == IF c.contexts.ok THEN c.contexts.items ELSE <<>>
        current_context == IF c.current.ok THEN c.current.name ELSE ""
    IN  CASE contexts = <<>> -> NewErr("No Kubernetes contexts found")
          [] current_context = "" -> NewErr("No current context set")
          [] c.client = "err" ->
               NewErr("Failed to initialize Kubernetes client")
          [] OTHER ->
               [ok |-> TRUE,
                app |-> App_new(contexts, current_context, c.ns, c.lst),
                why |-> "",
                calls |-> IF c.ns.ok THEN <<"list_namespaces", "list_pods">>
                          ELSE <<"list_namespaces">>]

move_selection_up(a) ==
    CASE a.current_view = "Pods" ->
           IF a.pod_index > 0 THEN [a EXCEPT !.pod_index = @ - 1] ELSE a
      [] a.current_view = "Deployments" ->
           IF a.deployment_index > 0
           THEN [a EXCEPT !.deployment_index = @ - 1] ELSE a
      [] a.current_view = "Services" ->
           IF a.service_index > 0 THEN [a EXCEPT !.service_index = @ - 1] ELSE a
      [] a.current_view = "Clusters" ->
           IF a.context_index > 0 THEN [a EXCEPT !.context_index = @ - 1] ELSE a
      [] a.current_view = "Namespaces" ->
           IF a.namespace_index > 0
           THEN [a EXCEPT !.namespace_index = @ - 1] ELSE a
      [] a.current_view = "Logs" ->
           IF a.logs_scroll > 0
           THEN [a EXCEPT !.logs_scroll = @ - 1, !.logs_follow = FALSE] ELSE a
      [] OTHER -> a

\* move_selection_down going back to the first item after the last.
move_selection_down_wraps(a) ==
    LET next(i, l) == IF i + 1 < Len(l) THEN i + 1 ELSE 0
    IN  CASE a.current_view = "Pods" ->
               [a EXCEPT !.pod_index = next(@, a.pods)]
          [] a.current_view = "Deployments" ->
               [a EXCEPT !.deployment_index = next(@, a.deployments)]
          [] a.current_view = "Services" ->
               [a EXCEPT !.service_index = next(@, a.services)]
          [] a.current_view = "Clusters" ->
               [a EXCEPT !.context_index = next(@, a.contexts)]
          [] a.current_view = "Namespaces" ->
               [a EXCEPT !.namespace_index = next(@, a.namespaces)]
          [] OTHER -> a

move_selection_down(a) ==
    CASE a.current_view = "Pods" ->
           IF a.pod_index < saturating_sub(Len(a.pods), 1)
           THEN [a EXCEPT !.pod_index = @ + 1] ELSE a
      [] a.current_view = "Deployments" ->
           IF a.deployment_index < saturating_sub(Len(a.deployments), 1)
           THEN [a EXCEPT !.deployment_index = @ + 1] ELSE a
      [] a.current_view = "Services" ->
           IF a.service_index < saturating_sub(Len(a.services), 1)
           THEN [a EXCEPT !.service_index = @ + 1] ELSE a
      [] a.current_view = "Clusters" ->
           IF a.context_index < saturating_sub(Len(a.contexts), 1)
           THEN [a EXCEPT !.context_index = @ + 1] ELSE a
      [] a.current_view = "Namespaces" ->
           IF a.namespace_index < saturating_sub(Len(a.namespaces), 1)
           THEN [a EXCEPT !.namespace_index = @ + 1] ELSE a
      [] a.current_view = "Logs" ->
           IF a.logs_scroll < saturating_sub(Len(a.logs), 1)
           THEN [a EXCEPT !.logs_scroll = @ + 1, !.logs_follow = FALSE] ELSE a
      [] OTHER -> a

\* Vec::get(index)
Get(l, i) == IF i < Len(l) THEN Some(l[i + 1]) ELSE None

delete_current_item(a, ss, e) ==
    CASE a.current_view = "Pods" /\ Get(a.pods, a.pod_index) # None ->
           IF e.api = "ok"
           THEN refresh_current_view(
                    [a EXCEPT !.status_message = "Deleted pod"], ss, e.lst)
           ELSE Ret([a EXCEPT !.error_message = Some("Failed to delete pod")],
                    ss, "Ok")
      [] a.current_view = "Deployments"
           /\ Get(a.deployments, a.deployment_index) # None ->
           IF e.api = "ok"
           THEN refresh_current_view(
                    [a EXCEPT !.status_message = "Deleted deployment"],
                    ss, e.lst)
           ELSE Ret([a EXCEPT !.error_message =
                                  Some("Failed to delete deployment")],
                    ss, "Ok")
      [] OTHER -> Ret(a, ss, "Ok")

\* view_pod_logs keeping the scroll position of the log shown before.
view_pod_logs_keeps_scroll(a, ss, e) ==
    IF Get(a.pods, a.pod_index) # None
    THEN IF e.logs.ok
         THEN Ret([a EXCEPT !.logs = e.logs.items,
                            !.logs_pod_name = Get(a.pods, a.pod_index),
                            !.current_view = "Logs"],
                  ss, "Ok")
         ELSE Ret([a EXCEPT !.error_message = Some("Failed to get logs")],
                  ss, "Ok")
    ELSE Ret(a, ss, "Ok")

view_pod_logs(a, ss, e) ==
    IF Get(a.pods, a.pod_index) # None
    THEN IF e.logs.ok
         THEN Ret([a EXCEPT !.logs = e.logs.items,
                            !.logs_scroll = 0,
                            !.logs_pod_name = Get(a.pods, a.pod_index),
                            !.current_view = "Logs"],
                  ss, "Ok")
         ELSE Ret([a EXCEPT !.error_message = Some("Failed to get logs")],
                  ss, "Ok")
    ELSE Ret(a, ss, "Ok")

toggle_log_follow(a) ==
    IF ~a.logs_follow
    THEN [a EXCEPT !.logs_follow = TRUE,
                   !.logs_scroll = saturating_sub(Len(a.logs), 1),
                   !.status_message = "Log follow mode enabled"]
    ELSE [a EXCEPT !.logs_follow = FALSE,
                   !.status_message = "Log follow mode disabled"]

\* The get_pod_logs calls refresh_logs makes: one, for the pod of the log
\* view, in follow mode in that view.
log_fetches(a) ==
    IF a.logs_follow /\ a.current_view = "Logs" /\ a.logs_pod_name # None
    THEN <<[namespace |-> a.current_namespace, pod |-> a.logs_pod_name[1]]>>
    ELSE <<>>

\* refresh_logs fetching in follow mode whatever the view.
refresh_logs_any_view(a, ss, e) ==
    IF a.logs_follow /\ a.logs_pod_name # None /\ e.logs.ok
    THEN Ret([a EXCEPT !.logs = e.logs.items,
                       !.logs_scroll = saturating_sub(Len(e.logs.items), 1)],
             ss, "Ok")
    ELSE Ret(a, ss, "Ok")

refresh_logs(a, ss, e) ==
    IF log_fetches(a) # <<>> /\ e.logs.ok
    THEN Ret([a EXCEPT !.logs = e.logs.items,
                       !.logs_scroll = saturating_sub(Len(e.logs.items), 1)],
             ss, "Ok")
    ELSE Ret(a, ss, "Ok")

switch_to_selected_context(a0, ss, e) ==
    LET got == Get(a0.contexts, a0.context_index)
        context == got[1]
        a1 == [a0 EXCEPT !.error_message = None,
                         !.status_message = "Switching to context"]
        a2 == [a1 EXCEPT !.current_context = context.name]
        connected ==
            [a2 EXCEPT !.namespaces = e.ns.items,
                       !.current_namespace =
                           IF context.namespace # "" THEN context.namespace
                           ELSE IF e.ns.items # <<>> THEN Head(e.ns.items)
                           ELSE "default",
                       !.error_message = None,
                       !.status_message = "Successfully connected to context",
                       !.current_view = "Pods"]
        unreachable ==
            [a2 EXCEPT !.error_message = Some("Switched but failed to connect"),
                       !.namespaces = <<"default">>,
                       !.current_namespace = "default"]
    IN  IF got = None THEN Ret(a0, ss, "Ok")
        ELSE IF e.api # "ok"
        THEN Ret([a1 EXCEPT !.error_message = Some("Failed to switch context")],
                 ss, "Ok")
        ELSE IF e.client # "ok"
        THEN Ret([a2 EXCEPT !.error_message =
                                Some("Switched but failed to initialize client")],
                 ss, "Ok")
        ELSE Try(IF e.ns.ok THEN refresh_current_view(connected, ss, e.lst)
                 ELSE Ret(unreachable, ss, "Ok"),
                 LAMBDA a, s1 : refresh_current_view(a, s1, e.lst2))

switch_to_selected_namespace(a, ss, e) ==
    LET got == Get(a.namespaces, a.namespace_index)
    IN  IF got = None THEN Ret(a, ss, "Ok")
        ELSE refresh_current_view(
                 [a EXCEPT !.current_namespace = got[1],
                           !.status_message = "Switched to namespace",
                           !.current_view = "Pods"],
                 ss, e.lst)

\* exec_into_pod showing the choice of a shell with no pod selected.
exec_into_pod_unselected(a, ss) ==
    Ret([a EXCEPT !.input_mode = "TerminalChoice",
                  !.terminal_choice_selection = 0,
                  !.status_message = "Choose terminal type"],
        ss, "Ok")

exec_into_pod(a, ss) ==
    IF Get(a.pods, a.pod_index) # None
    THEN Ret([a EXCEPT !.input_mode = "TerminalChoice",
                       !.terminal_choice_selection = 0,
                       !.status_message = "Choose terminal type"],
             ss, "Ok")
    ELSE Ret(a, ss, "Ok")

\* PendingAction::ExecIntoPod { namespace, pod_name }
ExecIntoPod(namespace, pod_name) ==
    [namespace |-> namespace, pod_name |-> pod_name]

\* The state machine asks for the hand-off of the terminal to a shell in the
\* selected pod.
request_exec(a) ==
    IF Get(a.pods, a.pod_index) # None
    THEN [a EXCEPT !.pending_action =
                       Some(ExecIntoPod(a.current_namespace,
                                        Get(a.pods, a.pod_index)[1]))]
    ELSE a

\* take_pending_action: the pending action, if any, is handed out and none
\* is left.
take_pending_action(a) ==
    [app |-> [a EXCEPT !.pending_action = None], ret |-> a.pending_action]

\* set_exec_result(&pod_name, success, error): the outcome of the hand-off
\* as a status or an error message.
set_exec_result(a, pod_name, success) ==
    IF success THEN [a EXCEPT !.status_message = "Exec session ended"]
    ELSE [a EXCEPT !.error_message = Some("Exec failed")]

\* session.lock() and the end of the guard's scope.
MutexLock(s, who) == [s EXCEPT !.lock = who]
MutexUnlock(s) == [s EXCEPT !.lock = "free"]

\* The session slots not used yet.
FreeIds(ss) == {i \in SessionIds : ss[i].st = "none"}

\* Assigning self.terminal_session drops the value it held.
SetSession(a, ss, new) ==
    IF a.terminal_session # None /\ a.terminal_session # new
    THEN [ss EXCEPT ![a.terminal_session[1]] = DropSession(@)]
    ELSE ss

\* The answers the creation of a session can get: bash and sh what
\* new_with_shell answers for "/bin/bash" and for "/bin/sh", join whether the
\* blocking task could be joined.
OpenAnswer(join, bash, sh) == [join |-> join, bash |-> bash, sh |-> sh]

\* The blocking task without the fallback: the first error is returned.
open_task_no_fallback(o) ==
    [res |-> o.bash, tried |-> <<"/bin/bash">>]

\* The closure open_embedded_terminal hands to spawn_blocking: bash first,
\* sh when bash failed. tried lists the shells it asked for, in order.
open_task(o) ==
    IF o.bash = "ok" THEN [res |-> "ok", tried |-> <<"/bin/bash">>]
    ELSE [res |-> o.sh, tried |-> <<"/bin/bash", "/bin/sh">>]

\* open_embedded_terminal switching to the shell view whatever the result.
open_embedded_terminal_always_shown(a0, ss, e) ==
    LET got == Get(a0.pods, a0.pod_index)
        a == [a0 EXCEPT !.status_message = "Connecting to pod",
                        !.current_view = "Terminal"]
        id == CHOOSE i \in FreeIds(ss) : \A j \in FreeIds(ss) : i <= j
    IN  IF got = None THEN Ret(a0, ss, "Ok")
        ELSE CASE e.open.join = "ok" /\ open_task(e.open).res = "ok" ->
                    Ret([a EXCEPT !.terminal_session = Some(id),
                                  !.terminal_pod_name = got,
                                  !.status_message = "Connected to pod"],
                        [SetSession(a, ss, Some(id))
                            EXCEPT ![id] = TerminalSession_new],
                        "Ok")
               [] OTHER ->
                    Ret([a EXCEPT !.error_message =
                                      Some("Failed to exec into pod")],
                        ss, "Ok")

\* open_embedded_terminal: e.open is what the creation of the session gets.
open_embedded_terminal(a0, ss, e) ==
    LET got == Get(a0.pods, a0.pod_index)
        a == [a0 EXCEPT !.status_message = "Connecting to pod"]
        id == CHOOSE i \in FreeIds(ss) : \A j \in FreeIds(ss) : i <= j
    IN  IF got = None THEN Ret(a0, ss, "Ok")
        ELSE CASE e.open.join = "ok" /\ open_task(e.open).res = "ok" ->
                    Ret([a EXCEPT !.terminal_session = Some(id),
                                  !.terminal_pod_name = got,
                                  !.current_view = "Terminal",
                                  !.status_message = "Connected to pod"],
                        [SetSession(a, ss, Some(id))
                            EXCEPT ![id] = TerminalSession_new],
                        "Ok")
               [] e.open.join = "err" ->
                    Ret([a EXCEPT !.error_message =
                                      Some("Failed to spawn terminal task")],
                        ss, "Ok")
               [] OTHER ->
                    Ret([a EXCEPT !.error_message =
                                      Some("Failed to exec into pod")],
                        ss, "Ok")

open_native_terminal(a, ss, e) ==
    IF Get(a.pods, a.pod_index) = None THEN Ret(a, ss, "Ok")
    ELSE IF e.api = "ok"
    THEN Ret([a EXCEPT !.status_message = "Opened terminal tab"], ss, "Ok")
    ELSE Ret([a EXCEPT !.error_message = Some("Failed to open terminal tab"),
                       !.status_message = "Run this command"],
             ss, "Ok")

\* close_terminal: close under the lock, its result ignored, then the handle
\* is dropped.
\* close_terminal leaking the session (mem::forget for the close and drop).
close_terminal_forget(a, ss, e) ==
    Ret([a EXCEPT !.terminal_session = None, !.terminal_pod_name = None,
                  !.terminal_scroll = 0], ss, "Ok")

\* close_terminal leaving terminal_pod_name as it was.
close_terminal_keeps_name(a, ss, e) ==
    LET id == a.terminal_session[1]
        closed == MutexUnlock(close(MutexLock(ss[id], "close"), e.io).s)
        a1 == [a EXCEPT !.terminal_session = None, !.terminal_scroll = 0]
    IN  IF a.terminal_session = None THEN Ret(a1, ss, "Ok")
        ELSE Ret(a1, SetSession(a, [ss EXCEPT ![id] = closed], None), "Ok")

close_terminal(a, ss, e) ==
    LET id == a.terminal_session[1]
        closed == MutexUnlock(close(MutexLock(ss[id], "close"), e.io).s)
        a1 == [a EXCEPT !.terminal_session = None,
                        !.terminal_pod_name = None,
                        !.terminal_scroll = 0]
    IN  IF a.terminal_session = None THEN Ret(a1, ss, "Ok")
        ELSE Ret(a1, SetSession(a, [ss EXCEPT ![id] = closed], None), "Ok")

Tabs == <<"Pods", "Deployments", "Services", "Clusters", "Namespaces", "Help">>

Position(view) ==
    IF \E i \in 1..Len(Tabs) : Tabs[i] = view
    THEN Some((CHOOSE i \in 1..Len(Tabs) : Tabs[i] = view) - 1)
    ELSE None

\* navigate_tab_left stopping at the first tab.
navigate_tab_left_stops(a, ss, e) ==
    LET pos == Position(a.current_view)
        new_index == IF pos[1] = 0 THEN 0 ELSE pos[1] - 1
    IN  IF pos = None THEN Ret(a, ss, "Ok")
        ELSE refresh_current_view(
                 [a EXCEPT !.current_view = Tabs[new_index + 1]], ss, e.lst)

navigate_tab_left(a, ss, e) ==
    LET pos == Position(a.current_view)
        new_index == IF pos[1] = 0 THEN Len(Tabs) - 1 ELSE pos[1] - 1
    IN  IF pos = None THEN Ret(a, ss, "Ok")
        ELSE refresh_current_view(
                 [a EXCEPT !.current_view = Tabs[new_index + 1]], ss, e.lst)

navigate_tab_right(a, ss, e) ==
    LET pos == Position(a.current_view)
        new_index == IF pos[1] = Len(Tabs) - 1 THEN 0 ELSE pos[1] + 1
    IN  IF pos = None THEN Ret(a, ss, "Ok")
        ELSE refresh_current_view(
                 [a EXCEPT !.current_view = Tabs[new_index + 1]], ss, e.lst)

\* A successful arm of a key match falls through to Ok(true).
OkTrue(r) == Try(r, LAMBDA a, ss : Ret(a, ss, "Ok(true)"))

SetView(a, view) == [a EXCEPT !.current_view = view]

handle_normal_mode(a, ss, key, e) ==
    LET c == key.code
    IN  CASE c = "q" -> Ret(a, ss, "Ok(false)")
          [] c = "1" -> OkTrue(refresh_current_view(SetView(a, "Pods"), ss, e.lst))
          [] c = "2" ->
               OkTrue(refresh_current_view(SetView(a, "Deployments"), ss, e.lst))
          [] c = "3" ->
               OkTrue(refresh_current_view(SetView(a, "Services"), ss, e.lst))
          [] c = "4" ->
               OkTrue(refresh_current_view(SetView(a, "Clusters"), ss, e.lst))
          [] c \in {"5", "n"} ->
               OkTrue(refresh_current_view(SetView(a, "Namespaces"), ss, e.lst))
          [] c \in {"?", "h"} -> Ret(SetView(a, "Help"), ss, "Ok(true)")
          [] c = "r" -> OkTrue(refresh_current_view(a, ss, e.lst))
          [] c = "d" -> OkTrue(delete_current_item(a, ss, e))
          [] c = "l" ->
               IF a.current_view = "Pods" THEN OkTrue(view_pod_logs(a, ss, e))
               ELSE Ret(a, ss, "Ok(true)")
          [] c = "f" ->
               IF a.current_view = "Logs"
               THEN Ret(toggle_log_follow(a), ss, "Ok(true)")
               ELSE Ret(a, ss, "Ok(true)")
          [] c = "e" ->
               IF a.current_view = "Pods" THEN OkTrue(exec_into_pod(a, ss))
               ELSE Ret(a, ss, "Ok(true)")
          [] c = "s" ->
               IF a.current_view = "Deployments"
               THEN Ret([a EXCEPT !.input_mode = "Scale",
                                  !.input_buffer = <<>>],
                        ss, "Ok(true)")
               ELSE Ret(a, ss, "Ok(true)")
          [] c = "Enter" ->
               CASE a.current_view = "Clusters" ->
                      OkTrue(switch_to_selected_context(a, ss, e))
                 [] a.current_view = "Namespaces" ->
                      OkTrue(switch_to_selected_namespace(a, ss, e))
                 [] OTHER -> Ret(a, ss, "Ok(true)")
          [] c = "Esc" ->
               CASE a.current_view = "Help" -> Ret(SetView(a, "Pods"), ss, "Ok(true)")
                 [] a.current_view = "Logs" ->
                      Ret([a EXCEPT !.logs_follow = FALSE,
                                    !.current_view = "Pods"],
                          ss, "Ok(true)")
                 [] a.current_view = "Terminal" ->
                      LET r == close_terminal(a, ss, e)
                      IN  Ret(SetView(r.app, "Pods"), r.sess, "Ok(true)")
                 [] OTHER -> Ret(a, ss, "Ok(true)")
          [] c \in {"Up", "k"} -> Ret(move_selection_up(a), ss, "Ok(true)")
          [] c \in {"Down", "j"} -> Ret(move_selection_down(a), ss, "Ok(true)")
          [] c = "Left" -> OkTrue(navigate_tab_left(a, ss, e))
          [] c = "Right" -> OkTrue(navigate_tab_right(a, ss, e))
          [] OTHER -> Ret(a, ss, "Ok(true)")

Digits == {"0", "1", "2", "3", "4", "5", "6", "7", "8", "9"}

DigitVal(c) ==
    CASE c = "0" -> 0 [] c = "1" -> 1 [] c = "2" -> 2 [] c = "3" -> 3
      [] c = "4" -> 4 [] c = "5" -> 5 [] c = "6" -> 6 [] c = "7" -> 7
      [] c = "8" -> 8 [] c = "9" -> 9

I32Max == 2147483647

\* The digits of an i32 read from the left, each step checked as parse does:
\* None once 10 * acc + d would pass I32Max.
RECURSIVE parse_digits(_, _)
parse_digits(buf, acc) ==
    IF buf = <<>> THEN Some(acc)
    ELSE LET d == DigitVal(Head(buf))
         IN  IF acc > (I32Max - d) \div 10 THEN None
             ELSE parse_digits(Tail(buf), 10 * acc + d)

\* parse::<i32>() reading the empty buffer as 0.
parse_i32_empty_zero(buf) == parse_digits(buf, 0)

\* input_buffer.parse::<i32>() on a buffer of ASCII digits.
parse_i32(buf) == IF buf = <<>> THEN None ELSE parse_digits(buf, 0)

\* The scale_deployment calls Enter makes in scale mode: one when the buffer
\* parses and a deployment is selected, with the namespace, the name of the
\* deployment and the parsed count.
scale_calls(a) ==
    IF parse_i32(a.input_buffer) # None
         /\ Get(a.deployments, a.deployment_index) # None
    THEN <<[namespace |-> a.current_namespace,
            name |-> Get(a.deployments, a.deployment_index)[1],
            replicas |-> parse_i32(a.input_buffer)[1]]>>
    ELSE <<>>

\* handle_scale_mode returning from the Err arm of the scale call, before
\* the mode is reset.
handle_scale_mode_early_return(a, ss, key, e) ==
    LET c == key.code
        leave(x) == [x EXCEPT !.input_mode = "Normal", !.input_buffer = <<>>]
    IN  CASE c = "Esc" -> Ret(leave(a), ss, "Ok(true)")
          [] c = "Enter" ->
               IF scale_calls(a) # <<>>
               THEN IF e.api = "ok"
                    THEN Try(refresh_current_view(
                                 [a EXCEPT !.status_message = "Scaled"],
                                 ss, e.lst),
                             LAMBDA x, s1 : Ret(leave(x), s1, "Ok(true)"))
                    ELSE Ret([a EXCEPT !.error_message =
                                           Some("Failed to scale")],
                             ss, "Ok(true)")
               ELSE Ret(leave(a), ss, "Ok(true)")
          [] c \in Digits ->
               Ret([a EXCEPT !.input_buffer = Append(@, c)], ss, "Ok(true)")
          [] c = "Backspace" ->
               Ret([a EXCEPT !.input_buffer =
                                 SubSeq(@, 1, saturating_sub(Len(@), 1))],
                   ss, "Ok(true)")
          [] OTHER -> Ret(a, ss, "Ok(true)")

handle_scale_mode(a, ss, key, e) ==
    LET c == key.code
        leave(x) == [x EXCEPT !.input_mode = "Normal", !.input_buffer = <<>>]
    IN  CASE c = "Esc" -> Ret(leave(a), ss, "Ok(true)")
          [] c = "Enter" ->
               IF scale_calls(a) # <<>>
               THEN IF e.api = "ok"
                    THEN Try(refresh_current_view(
                                 [a EXCEPT !.status_message = "Scaled"],
                                 ss, e.lst),
                             LAMBDA x, s1 : Ret(leave(x), s1, "Ok(true)"))
                    ELSE Ret(leave([a EXCEPT !.error_message =
                                                 Some("Failed to scale")]),
                             ss, "Ok(true)")
               ELSE Ret(leave(a), ss, "Ok(true)")
          [] c \in Digits ->
               Ret([a EXCEPT !.input_buffer = Append(@, c)], ss, "Ok(true)")
          [] c = "Backspace" ->
               Ret([a EXCEPT !.input_buffer =
                                 SubSeq(@, 1, saturating_sub(Len(@), 1))],
                   ss, "Ok(true)")
          [] OTHER -> Ret(a, ss, "Ok(true)")

\* handle_terminal_choice_mode leaving the mode only when the shell opened.
handle_terminal_choice_mode_stays(a, ss, key, e) ==
    LET c == key.code
        normal == [a EXCEPT !.input_mode = "Normal"]
        opened == open_embedded_terminal(a, ss, e)
    IN  CASE c = "Esc" ->
               Ret([normal EXCEPT !.status_message = ""], ss, "Ok(true)")
          [] c = "1" \/ (c = "Enter" /\ a.terminal_choice_selection = 0) ->
               IF opened.app.current_view = "Terminal"
               THEN OkTrue(open_embedded_terminal(normal, ss, e))
               ELSE OkTrue(opened)
          [] c \in {"2", "Enter"} -> OkTrue(open_native_terminal(normal, ss, e))
          [] c \in {"Up", "k"} ->
               IF a.terminal_choice_selection > 0
               THEN Ret([a EXCEPT !.terminal_choice_selection = @ - 1],
                        ss, "Ok(true)")
               ELSE Ret(a, ss, "Ok(true)")
          [] c \in {"Down", "j"} ->
               IF a.terminal_choice_selection < 1
               THEN Ret([a EXCEPT !.terminal_choice_selection = @ + 1],
                        ss, "Ok(true)")
               ELSE Ret(a, ss, "Ok(true)")
          [] OTHER -> Ret(a, ss, "Ok(true)")

handle_terminal_choice_mode(a, ss, key, e) ==
    LET c == key.code
        normal == [a EXCEPT !.input_mode = "Normal"]
    IN  CASE c = "Esc" ->
               Ret([normal EXCEPT !.status_message = ""], ss, "Ok(true)")
          [] c = "1" -> OkTrue(open_embedded_terminal(normal, ss, e))
          [] c = "2" -> OkTrue(open_native_terminal(normal, ss, e))
          [] c = "Enter" ->
               IF a.terminal_choice_selection = 0
               THEN OkTrue(open_embedded_terminal(normal, ss, e))
               ELSE OkTrue(open_native_terminal(normal, ss, e))
          [] c \in {"Up", "k"} ->
               IF a.terminal_choice_selection > 0
               THEN Ret([a EXCEPT !.terminal_choice_selection = @ - 1],
                        ss, "Ok(true)")
               ELSE Ret(a, ss, "Ok(true)")
          [] c \in {"Down", "j"} ->
               IF a.terminal_choice_selection < 1
               THEN Ret([a EXCEPT !.terminal_choice_selection = @ + 1],
                        ss, "Ok(true)")
               ELSE Ret(a, ss, "Ok(true)")
          [] OTHER -> Ret(a, ss, "Ok(true)")

\* Lines PageUp and PageDown scroll by.
ScrollStep == 10

\* handle_terminal_mode. A forwarded key leaves the method inside send_input
\* (cont), holding the lock, with process_output and the scroll reset to come.
\* handle_terminal_mode without the Ctrl+D arm: the key is forwarded to the
\* shell as any other.
handle_terminal_mode_no_ctrl_d(a, ss, key, e) ==
    LET c == key.code
        exit == LET r == close_terminal(a, ss, e)
                IN  Ret(SetView(r.app, "Pods"), r.sess, "Ok(true)")
        id == a.terminal_session[1]
        w == send_input(MutexLock(ss[id], "send_input"), key, e.io)
    IN  CASE c = "Esc" -> exit
          [] c = "PageUp" ->
               Ret([a EXCEPT !.terminal_scroll = saturating_sub(@, ScrollStep)],
                   ss, "Ok(true)")
          [] c = "PageDown" ->
               Ret([a EXCEPT !.terminal_scroll = @ + ScrollStep], ss, "Ok(true)")
          [] OTHER ->
               IF w.ret = "Err"
               THEN Ret(a, [ss EXCEPT ![id] = MutexUnlock(w.s)], "Err")
               ELSE [app |-> a, sess |-> [ss EXCEPT ![id] = w.s],
                     ret |-> "Ok(true)", cont |-> TRUE]

handle_terminal_mode(a, ss, key, e) ==
    LET c == key.code
        exit == LET r == close_terminal(a, ss, e)
                IN  Ret(SetView(r.app, "Pods"), r.sess, "Ok(true)")
        id == a.terminal_session[1]
        w == send_input(MutexLock(ss[id], "send_input"), key, e.io)
    IN  CASE c = "d" /\ key.ctrl -> exit
          [] c = "Esc" -> exit
          [] c = "PageUp" ->
               IF a.terminal_scroll > 0
               THEN Ret([a EXCEPT !.terminal_scroll =
                                      saturating_sub(@, ScrollStep)],
                        ss, "Ok(true)")
               ELSE Ret(a, ss, "Ok(true)")
          [] c = "PageDown" ->
               Ret([a EXCEPT !.terminal_scroll = @ + ScrollStep], ss, "Ok(true)")
          [] OTHER ->
               IF a.terminal_session = None
               THEN Ret([a EXCEPT !.terminal_scroll = 0], ss, "Ok(true)")
               ELSE IF w.ret = "Err"
               THEN Ret(a, [ss EXCEPT ![id] = MutexUnlock(w.s)], "Err")
               ELSE [app |-> a, sess |-> [ss EXCEPT ![id] = w.s],
                     ret |-> "Ok(true)", cont |-> TRUE]

\* The rest of handle_terminal_mode once send_input has returned Ok.
handle_terminal_mode_rest(a) == [a EXCEPT !.terminal_scroll = 0]

\* handle_event taking the scale prompt for the normal mode.
handle_event_no_scale_mode(a, ss, key, e) ==
    IF a.current_view = "Terminal" THEN handle_terminal_mode(a, ss, key, e)
    ELSE CASE a.input_mode \in {"Normal", "Scale"} ->
                handle_normal_mode(a, ss, key, e)
           [] a.input_mode = "TerminalChoice" ->
                handle_terminal_choice_mode(a, ss, key, e)

handle_event(a, ss, key, e) ==
    IF a.current_view = "Terminal" THEN handle_terminal_mode(a, ss, key, e)
    ELSE CASE a.input_mode = "Normal" -> handle_normal_mode(a, ss, key, e)
           [] a.input_mode = "Scale" -> handle_scale_mode(a, ss, key, e)
           [] a.input_mode = "TerminalChoice" ->
                handle_terminal_choice_mode(a, ss, key, e)

\* ------------------------------------------------------------ environment
\* PageDown presses the model follows before the scroll offset is capped.
MaxScrollPages == 1

ListResults(lists) == {ErrList} \cup {OkList(l) : l \in lists}

LogTexts == {[i \in 1..n |-> "line"] : n \in 0..MaxLogLines}

\* A creation that fails at both shells.
NoShell == OpenAnswer("ok", "err", "err")

\* A session is created by this answer.
Opens(o) == o.join = "ok" /\ open_task(o).res = "ok"

\* What the creation of a session can get; an answer the task does not read
\* (sh after bash answered ok) is not varied, and a session is created only
\* while the model has a slot for it.
OpenOutcomes(ss) ==
    LET all == {OpenAnswer("ok", "ok", "err"), OpenAnswer("ok", "err", "ok"),
                NoShell, OpenAnswer("err", "err", "err")}
    IN  IF FreeIds(ss) = {} THEN {o \in all : ~Opens(o)} ELSE all

\* What the collaborators answer during one handle_event: lst and lst2 the
\* first and second list call, api a delete, scale, switch_context or
\* open_pod_terminal call, logs get_pod_logs, client KubeClient::new, ns
\* list_namespaces, open the session creation, io the pty writer. An answer
\* that no arm reached from this view, mode and key reads is not varied.
Envs(a, ss, key, lists) ==
    LET c == key.code
        term == a.current_view = "Terminal"
        normal == ~term /\ a.input_mode = "Normal"
        scale == ~term /\ a.input_mode = "Scale"
        choice == ~term /\ a.input_mode = "TerminalChoice"
        switch == normal /\ c = "Enter" /\ a.current_view = "Clusters"
    IN  [lst : IF \/ normal /\ c \in {"1", "2", "3", "4", "5", "n", "r", "d",
                                      "Left", "Right", "Enter"}
                  \/ scale /\ c = "Enter"
               THEN ListResults(lists) ELSE {ErrList},
         lst2 : IF switch THEN ListResults(lists) ELSE {ErrList},
         api : IF \/ normal /\ c = "d"
                  \/ switch
                  \/ scale /\ c = "Enter"
                  \/ choice /\ c \in {"2", "Enter"}
               THEN {"ok", "err"} ELSE {"ok"},
         logs : IF normal /\ c = "l" THEN ListResults(LogTexts) ELSE {ErrList},
         client : IF switch THEN {"ok", "err"} ELSE {"ok"},
         ns : IF switch THEN ListResults(lists) ELSE {ErrList},
         open : IF choice /\ c \in {"1", "Enter"} THEN OpenOutcomes(ss)
                ELSE {NoShell},
         io : IF term /\ a.terminal_session # None
              THEN WriteOutcomes(ss[a.terminal_session[1]]) ELSE {"ok"}]

\* The caps of the model: what a key would add stays within the bounds.
WithinBounds(a, ss, key) ==
    /\ (a.current_view = "Terminal" /\ a.terminal_session # None
          /\ ~(key.code \in {"Esc", "PageUp", "PageDown"})
          /\ ~(key.code = "d" /\ key.ctrl))
         => Len(ss[a.terminal_session[1]].written) + Len(encode(key))
                <= MaxWritten
    /\ (a.current_view = "Terminal" /\ key.code = "PageDown")
         => a.terminal_scroll < MaxScrollPages * ScrollStep
    /\ (a.current_view # "Terminal" /\ a.input_mode = "Scale"
          /\ key.code \in Digits)
         => Len(a.input_buffer) < MaxDigits

\* ----------------------------------------------------------------- actions
\* No TerminalSession call in progress. Of a call in progress, kind names it,
\* sid its session and mark counts the bytes the parser holds once the bytes
\* its channel held at the start are fed. call, had, ret, wrote and
\* afterClose describe the last call made on a session directly: its name,
\* the bytes the channel held when it started, what it returned, the bytes
\* it wrote and whether close had been called before it. tried lists the
\* shells the last creation of a session asked for, scaled the calls of
\* scale_deployment the last key made. lines is what the last get_screen made
\* in one piece returned, fed the bytes the parser held when it started.
Idle == [kind |-> "none", sid |-> 0, had |-> 0, mark |-> 0, call |-> "",
         ret |-> "", wrote |-> <<>>, afterClose |-> FALSE, tried |-> <<>>,
         scaled |-> <<>>, lines |-> <<>>, fed |-> 0]

\* The call of `kind` starts on session id.
Start(o, kind, id, s) ==
    [o EXCEPT !.kind = kind, !.sid = id,
              !.mark = Len(s.parser) + Len(Flatten(s.queue))]

\* run_app after a call returned r: `?` ends the loop with the error,
\* Ok(false) ends it with Ok(()).
AfterCall(r) ==
    CASE r = "Err" -> [pc |-> "done", ret |-> "Err"]
      [] r = "Ok(false)" -> [pc |-> "done", ret |-> "Ok"]
      [] OTHER -> [pc |-> "draw", ret |-> "running"]

\* run_app returning drops the App and with it the session it holds.
DropApp(a, ss, l) ==
    IF l.pc = "done" /\ a.terminal_session # None
    THEN [ss EXCEPT ![a.terminal_session[1]] = DropSession(@)]
    ELSE ss

\* get_terminal_screen reaching the session without taking its lock.
get_terminal_screen_unlocked(a, ss) == ss

\* get_terminal_screen, called by terminal.draw through render_terminal_view:
\* the lock is taken and get_screen starts its process_output.
get_terminal_screen(a, ss) ==
    LET id == a.terminal_session[1]
    IN  [ss EXCEPT ![id] = MutexLock(@, "get_screen")]

\* terminal.draw(|f| ui(f, &mut app)) reaches the session only through
\* render_terminal_view, in the shell view with a session held.
DrawsShell == app.current_view = "Terminal" /\ app.terminal_session # None

\* terminal.draw in the shell view. In every other view the draw leaves the
\* state as it is and the main thread is taken to be past it.
Draw ==
    /\ loop.pc = "draw"
    /\ DrawsShell
    /\ app' = app
    /\ sess' = get_terminal_screen(app, sess)
    /\ op' = Start(Idle, "get_screen", app.terminal_session[1],
                   sess[app.terminal_session[1]])
    /\ loop' = [loop EXCEPT !.pc = "drain"]

\* The main thread is past the draw: the log refresh, when its interval has
\* elapsed, then the poll for an event.
AtPoll == loop.pc = "poll" \/ (loop.pc = "draw" /\ ~DrawsShell)

\* The log refresh of run_app, its interval elapsed; texts is what
\* get_pod_logs can answer.
TickOf(texts) ==
    /\ AtPoll
    /\ op' = op
    /\ \E logs \in IF app.logs_follow /\ app.current_view = "Logs"
                   THEN ListResults(texts) ELSE {ErrList} :
         LET r == refresh_logs(app, sess, [logs |-> logs])
             l == AfterCall(r.ret)
         IN  /\ app' = r.app
             /\ loop' = IF l.pc = "done" THEN l ELSE loop
             /\ sess' = DropApp(r.app, r.sess, loop')

Tick == TickOf(LogTexts)

\* event_handler.next() answers None: the poll timed out.
PollTimeout ==
    /\ AtPoll
    /\ loop' = [loop EXCEPT !.pc = "draw"]
    /\ UNCHANGED <<app, sess, op>>

\* The key makes handle_terminal_choice_mode run open_embedded_terminal on a
\* selected pod.
RunsOpen(a, key) ==
    /\ a.current_view # "Terminal"
    /\ a.input_mode = "TerminalChoice"
    /\ key.code = "1" \/ (key.code = "Enter" /\ a.terminal_choice_selection = 0)
    /\ Get(a.pods, a.pod_index) # None

\* The shells the blocking task asked for, when handle_event ran one that
\* could be joined.
AfterOpen(a, key, e, o) ==
    IF RunsOpen(a, key)
    THEN [o EXCEPT !.tried = IF e.open.join = "ok" THEN open_task(e.open).tried
                             ELSE <<>>]
    ELSE o

\* The scale_deployment calls handle_event made on the key.
AfterScale(a, key, o) ==
    [o EXCEPT !.scaled = IF a.current_view # "Terminal"
                               /\ a.input_mode = "Scale" /\ key.code = "Enter"
                          THEN scale_calls(a) ELSE <<>>]

\* event_handler.next() answers a key and handle_event runs on it; o is what
\* is kept of the calls it made.
KeyStep(key, e, o) ==
    /\ AtPoll
    /\ LET r == handle_event(app, sess, key, e)
       IN  IF r.cont
           THEN /\ app' = r.app
                /\ sess' = r.sess
                /\ op' = Start(Idle, "send_input", app.terminal_session[1],
                               sess[app.terminal_session[1]])
                /\ loop' = [loop EXCEPT !.pc = "drain"]
           ELSE /\ app' = r.app
                /\ loop' = AfterCall(r.ret)
                /\ sess' = DropApp(r.app, r.sess, loop')
                /\ op' = o

\* A key that stays within the caps of the model.
HandleKey(key, e) ==
    /\ WithinBounds(app, sess, key)
    /\ KeyStep(key, e, AfterOpen(app, key, e, op))

\* One turn of the process_output loop the main thread is in; when try_recv
\* finds nothing the call returns, and in the dashboard the lock is released
\* and the caller goes on.
ProcessOutput ==
    /\ op.kind # "none"
    /\ LET r == process_output(sess[op.sid])
       IN  IF r.more
           THEN /\ sess' = [sess EXCEPT ![op.sid] = r.s]
                /\ UNCHANGED <<app, loop, op>>
           ELSE CASE loop.pc = "drain" /\ op.kind = "get_screen" ->
                       /\ op' = Idle
                       /\ sess' = [sess EXCEPT ![op.sid] = MutexUnlock(r.s)]
                       /\ loop' = [loop EXCEPT !.pc = "poll"]
                       /\ app' = app
                  [] loop.pc = "drain" /\ op.kind = "send_input" ->
                       /\ op' = Idle
                       /\ sess' = [sess EXCEPT ![op.sid] = MutexUnlock(r.s)]
                       /\ loop' = AfterCall("Ok(true)")
                       /\ app' = handle_terminal_mode_rest(app)
                  [] OTHER ->
                       /\ op' = [op EXCEPT !.kind = "none", !.ret = "Ok"]
                       /\ sess' = [sess EXCEPT ![op.sid] = r.s]
                       /\ UNCHANGED <<app, loop>>

\* The remote process writes a byte to its terminal.
RemoteOutput(i, max) ==
    /\ sess[i].child = "running"
    /\ sess[i].produced < max
    /\ sess' = [sess EXCEPT ![i].pty = Append(@, sess[i].produced + 1),
                            ![i].produced = @ + 1]
    /\ UNCHANGED <<app, loop, op>>

\* The remote process exits and its side of the pty closes.
RemoteExit(i) ==
    /\ sess[i].child = "running"
    /\ sess' = [sess EXCEPT ![i].child = "exited"]
    /\ UNCHANGED <<app, loop, op>>

\* The reader thread's read returns: bytes, or the end of the stream (Ok(0)
\* or an error) once the remote side is closed and nothing is left.
ReaderReadStep(i) ==
    /\ sess[i].wpc = "read"
    /\ \/ \E n \in 1..Len(sess[i].pty) :
            sess' = [sess EXCEPT ![i] = ReaderRead(@, n)]
       \/ /\ sess[i].pty = <<>>
          /\ sess[i].child = "exited"
          /\ \E how \in {"eof", "err"} :
               sess' = [sess EXCEPT ![i] = ReaderEnd(@, how)]
    /\ UNCHANGED <<app, loop, op>>

ReaderSendStep(i) ==
    /\ sess[i].wpc = "send"
    /\ sess' = [sess EXCEPT ![i] = ReaderSend(@)]
    /\ UNCHANGED <<app, loop, op>>

Background(max) ==
    \E i \in SessionIds :
        \/ RemoteOutput(i, max)
        \/ RemoteExit(i)
        \/ ReaderReadStep(i)
        \/ ReaderSendStep(i)

\* --------------------------------------------------- a session on its own
\* The TerminalSession used directly, as its owner may: send_input,
\* get_screen and close in any order, then the drop.
SessionKeys == {Key("a", FALSE), Key("F1", FALSE)}

\* No call in progress on a session that still exists.
CanCall == loop.pc = "api" /\ op.kind = "none" /\ sess[1].st = "open"

\* send_input called with one of the keys, the writer holding at most max
\* bytes after it.
CallSendInputOf(keys, max) ==
    /\ CanCall
    /\ \E key \in keys : \E io \in WriteOutcomes(sess[1]) :
         LET r == send_input(sess[1], key, io)
             made == [Start(Idle, "none", 1, sess[1])
                         EXCEPT !.call = "send_input",
                                  !.had = Len(Flatten(sess[1].queue)),
                                  !.wrote = SubSeq(r.s.written,
                                                   Len(sess[1].written) + 1,
                                                   Len(r.s.written)),
                                  !.afterClose = sess[1].closed # ""]
         IN  /\ Len(r.s.written) <= max
             /\ sess' = [sess EXCEPT ![1] = r.s]
             /\ op' = IF r.ret = "Err" THEN [made EXCEPT !.ret = "Err"]
                      ELSE [made EXCEPT !.kind = "send_input"]
    /\ UNCHANGED <<app, loop>>

CallSendInput == CallSendInputOf(SessionKeys, MaxWritten)

CallGetScreen ==
    /\ CanCall
    /\ op' = [Start(Idle, "get_screen", 1, sess[1])
                 EXCEPT !.call = "get_screen",
                        !.had = Len(Flatten(sess[1].queue)),
                        !.afterClose = sess[1].closed # ""]
    /\ UNCHANGED <<app, sess, loop>>

CallClose ==
    /\ CanCall
    /\ \E io \in WriteOutcomes(sess[1]) :
         LET r == close(sess[1], io)
         IN  /\ Len(r.s.written) <= MaxWritten
             /\ sess' = [sess EXCEPT ![1] = r.s]
             /\ op' = [Idle EXCEPT !.sid = 1, !.call = "close", !.ret = r.ret,
                                   !.afterClose = sess[1].closed # ""]
    /\ UNCHANGED <<app, loop>>

CallDrop ==
    /\ CanCall
    /\ sess' = [sess EXCEPT ![1] = DropSession(@)]
    /\ op' = Idle
    /\ UNCHANGED <<app, loop>>

SessionInit ==
    /\ app = App_new(<<"a">>, "a", OkList(<<"default">>), OkList(<<"a">>))
    /\ sess = [i \in SessionIds |->
                 IF i = 1 THEN TerminalSession_new ELSE NoSession]
    /\ loop = [pc |-> "api", ret |-> "running"]
    /\ op = Idle

SessionNext ==
    \/ CallSendInput
    \/ CallGetScreen
    \/ CallClose
    \/ CallDrop
    \/ ProcessOutput
    \/ Background(MaxBytes)

SessionSpec == SessionInit /\ [][SessionNext]_vars

\* The main thread keeps running while it is inside process_output.
SessionFairSpec == SessionSpec /\ WF_vars(ProcessOutput)

\* ------------------------------------------------- the shell in the dashboard
ShellKeys ==
    {Key("e", FALSE), Key("1", FALSE), Key("Enter", FALSE),
     Key("Esc", FALSE), Key("d", TRUE), Key("a", FALSE),
     Key("PageUp", FALSE), Key("PageDown", FALSE), Key("q", FALSE)}

ShellLists == {<<>>, <<"a">>}

NoSessions == [i \in SessionIds |-> NoSession]

Init ==
    /\ \E lst \in ListResults(ShellLists) :
         app = App_new(<<"a">>, "a", OkList(<<"default">>), lst)
    /\ sess = NoSessions
    /\ loop = [pc |-> "draw", ret |-> "running"]
    /\ op = Idle

\* The shells opened so far.
Opened(ss) == SessionIds \ FreeIds(ss)

\* A key of `keys` arrives; a shell is created only while fewer than `shells`
\* were.
KeyFrom(keys, lists, shells) ==
    \E key \in keys : \E e \in Envs(app, sess, key, lists) :
        /\ Opens(e.open) => Cardinality(Opened(sess)) < shells
        /\ HandleKey(key, e)

KeyEvent == KeyFrom(ShellKeys, ShellLists, MaxShells)

Next ==
    \/ Draw
    \/ PollTimeout
    \/ KeyEvent
    \/ ProcessOutput
    \/ Background(MaxShellBytes)

Spec == Init /\ [][Next]_vars

\* ------------------------------------------------ one shell after another
\* Shells opened, left and opened again, their remote processes silent.
ReopenKeys ==
    {Key("e", FALSE), Key("Enter", FALSE), Key("Esc", FALSE), Key("d", TRUE),
     Key("PageDown", FALSE)}

ReopenLists == {<<"a">>}

ReopenKeyEvent == KeyFrom(ReopenKeys, ReopenLists, MaxSessions)

ReopenNext ==
    \/ Draw
    \/ PollTimeout
    \/ ReopenKeyEvent
    \/ ProcessOutput
    \/ \E i \in SessionIds : RemoteExit(i) \/ ReaderReadStep(i)

ReopenSpec == Init /\ [][ReopenNext]_vars

\* ------------------------------------------------- the resource-list views
\* The dashboard outside the shell view: a key for every arm of the normal,
\* scale and choice modes, every answer of the cluster, no session created.
DashKeys ==
    {Key(c, FALSE) : c \in {"q", "1", "2", "3", "4", "5", "?", "r", "d", "l",
                            "f", "e", "s", "x", "Enter", "Esc", "Backspace",
                            "Up", "Down", "Left", "Right"}}

DashLists == {<<"a">>}

\* No session is created, and nothing is kept of the calls of a key.
DashKeyEvent ==
    \E key \in DashKeys : \E e \in Envs(app, sess, key, DashLists) :
        /\ ~Opens(e.open)
        /\ WithinBounds(app, sess, key)
        /\ KeyStep(key, e, op)

DashInit ==
    /\ \E lst \in ListResults(DashLists) : \E ns \in ListResults(DashLists) :
         app = App_new(<<"a">>, "a", ns, lst)
    /\ sess = NoSessions
    /\ loop = [pc |-> "draw", ret |-> "running"]
    /\ op = Idle

DashNext ==
    \/ Tick
    \/ DashKeyEvent

DashSpec == DashInit /\ [][DashNext]_vars

\* ---------------------------------------------------- lists and selections
\* The five list views with lists of every length up to MaxItems, refreshed
\* and walked with Up and Down.
ListKeys ==
    {Key(c, FALSE) : c \in {"1", "2", "3", "4", "5", "r", "Up", "k", "Down",
                            "j"}}

Prefixes == {SubSeq(AllNames, 1, n) : n \in 0..MaxItems}

ListKeyEvent == KeyFrom(ListKeys, Prefixes, 0)

ListInit ==
    /\ \E lst \in ListResults(Prefixes) :
         app = App_new(SubSeq(AllNames, 1, MaxItems), "a",
                       OkList(SubSeq(AllNames, 1, MaxItems)), lst)
    /\ sess = NoSessions
    /\ loop = [pc |-> "draw", ret |-> "running"]
    /\ op = Idle

ListNext == ListKeyEvent

ListSpec == ListInit /\ [][ListNext]_vars

\* The context and the namespace switched from their views, the pods, the
\* contexts and the namespaces of every length up to MaxItems.
SwitchKeys ==
    {Key(c, FALSE) : c \in {"1", "4", "5", "Up", "Down", "Enter"}}

SwitchKeyEvent == KeyFrom(SwitchKeys, Prefixes, 0)

SwitchNext == SwitchKeyEvent

SwitchSpec == ListInit /\ [][SwitchNext]_vars

\* ------------------------------------------------------------------ claims
\* The bytes 1..n in the order the remote process output them.
Stream(n) == [k \in 1..n |-> k]

\* C1: while a session is live, the bytes fed to the parser, then those in
\* the channel, then the chunk the reader thread holds, then those still in
\* the pty are the output of the remote process in the order it was
\* produced, each byte once: no chunk is dropped, repeated or reordered,
\* whatever the interleaving of the thread's sends with the drains.
C1_ChunksInOrder ==
    \A i \in SessionIds :
        sess[i].st = "open" =>
            sess[i].parser \o Flatten(sess[i].queue) \o sess[i].wbuf
                \o sess[i].pty = Stream(sess[i].produced)

\* A drain has fed a chunk, another waits in the channel and the reader
\* thread is about to send a third.
C1_Witness ==
    /\ op.kind # "none"
    /\ sess[1].parser # <<>>
    /\ sess[1].queue # <<>>
    /\ sess[1].wpc = "send"

\* C6: a send_input made after close has returned an error and written
\* nothing.
C6_SendAfterCloseFails ==
    (op.call = "send_input" /\ op.afterClose) =>
        (op.kind = "none" /\ op.ret = "Err" /\ op.wrote = <<>>)

\* A step in which close is called on session 1.
CloseCalled ==
    /\ op'.call = "close"
    /\ op' # op \/ sess'[1].written # sess[1].written

\* C7: close can be called wherever the reader thread is, blocked in its
\* read included; it leaves the thread as it is; and the thread leaves its
\* loop only from a read that answers end-of-stream or an error, or from a
\* send that finds the receiver gone.
C7_CloseLeavesReader ==
    /\ []((CanCall /\ Len(sess[1].written) < MaxWritten) => ENABLED CallClose)
    /\ [][CloseCalled =>
            /\ sess'[1].wpc = sess[1].wpc
            /\ sess'[1].wbuf = sess[1].wbuf
            /\ sess'[1].wexit = sess[1].wexit
            /\ sess'[1].queue = sess[1].queue]_vars
    /\ [][\A i \in SessionIds :
            (sess[i].wpc # "exited" /\ sess'[i].wpc = "exited") =>
                \/ /\ sess[i].wpc = "read"
                   /\ sess[i].pty = <<>>
                   /\ sess[i].child = "exited"
                   /\ sess'[i].wexit \in {"eof", "err"}
                \/ /\ sess[i].wpc = "send"
                   /\ sess[i].st = "dropped"
                   /\ sess'[i].wexit = "peer_gone"]_vars

\* close has returned while the reader thread is blocked in a read of a
\* running process.
C7_Witness ==
    /\ op.call = "close"
    /\ sess[1].st = "open"
    /\ sess[1].closed = "Ok"
    /\ sess[1].wpc = "read"
    /\ sess[1].pty = <<>>
    /\ sess[1].child = "running"

\* A step in which a send_input or a get_screen on session 1 returns.
Returns ==
    /\ op'.kind = "none"
    /\ op'.call \in {"send_input", "get_screen"}
    /\ op' # op

\* The main thread inside process_output leaves it, and the call, at the
\* first try_recv that finds nothing; fairness lets it take every turn.
NeverWaits ==
    /\ [][(op.kind # "none" /\ sess[op.sid].queue = <<>> /\ sess' = sess)
            => op'.kind = "none"]_vars
    /\ (op.kind # "none") ~> (op.kind = "none")

\* C9, as stated: send_input and get_screen never wait for output, and
\* whenever either returns every byte the channel held when the call started
\* has been fed to the parser.
C9_EveryReturnHasFed ==
    /\ [][Returns => Len(sess'[1].parser) >= op'.mark]_vars
    /\ NeverWaits

\* C9, amended: send_input and get_screen never wait for output, and
\* whenever get_screen returns, or send_input returns Ok, every byte the
\* channel held when the call started has been fed to the parser.
C9_OkReturnHasFed ==
    /\ [][(Returns /\ op'.ret = "Ok") =>
            Len(sess'[1].parser) >= op'.mark]_vars
    /\ [][(op.kind # "none" /\ op'.kind = "none") => op'.ret = "Ok"]_vars
    /\ NeverWaits

\* A send_input that found two bytes in the channel has returned, the bytes
\* fed, with the reader thread blocked in a read and nothing more to come.
C9_Witness ==
    /\ op.kind = "none"
    /\ op.call = "send_input"
    /\ op.ret = "Ok"
    /\ op.had >= 2
    /\ Len(sess[1].parser) >= op.mark
    /\ sess[1].wpc = "read"
    /\ sess[1].pty = <<>>

\* The keys handle_terminal_mode forwards to the session.
Forwarded(key) ==
    /\ ~(key.code \in {"Esc", "PageUp", "PageDown"})
    /\ ~(key.code = "d" /\ key.ctrl)

\* C2: when a key is forwarded in the shell view and the write or the flush
\* of send_input fails, handle_event returns no error and the loop keeps
\* running: the shell view is left for the Pods view, the session is given
\* up and a message records the failure.
C2_WriteFailureRecovered ==
    [][\A key \in ShellKeys : \A e \in Envs(app, sess, key, ShellLists) :
         (/\ app.current_view = "Terminal"
          /\ Forwarded(key)
          /\ e.io # "ok"
          /\ HandleKey(key, e)) =>
             /\ loop'.ret = "running"
             /\ app'.current_view = "Pods"
             /\ app'.terminal_session = None
             /\ app'.error_message # None]_vars

\* C4: at most one session is live, and when a session is created every
\* session created before it has had close called on it and has been
\* dropped.
C4_OneLiveSession ==
    /\ [](Cardinality({i \in SessionIds : sess[i].st = "open"}) <= 1)
    /\ [][\A i \in SessionIds :
            (sess[i].st = "none" /\ sess'[i].st = "open") =>
                \A j \in SessionIds \ {i} :
                    \/ sess[j].st = "none"
                    \/ sess[j].st = "dropped" /\ sess[j].closed # ""]_vars

\* A second shell is open, the first closed and dropped.
C4_Witness ==
    /\ app.terminal_session = Some(2)
    /\ sess[2].st = "open"
    /\ sess[1].st = "dropped"
    /\ sess[1].closed # ""

ExitKeys == {Key("Esc", FALSE), Key("d", TRUE)}

\* C5: in the shell view Esc or Ctrl+D calls close on the session, whatever
\* close returns, drops it, clears terminal_session and terminal_pod_name,
\* resets terminal_scroll and shows the Pods view; the remote process is
\* left as it is and the loop goes on.
C5_ExitClosesAndDrops ==
    [][\A key \in ExitKeys : \A e \in Envs(app, sess, key, ReopenLists) :
         (/\ app.current_view = "Terminal"
          /\ app.terminal_session # None
          /\ HandleKey(key, e)) =>
             LET id == app.terminal_session[1]
             IN  /\ sess'[id].closed = (IF e.io = "ok" THEN "Ok" ELSE "Err")
                 /\ sess'[id].st = "dropped"
                 /\ sess'[id].child = sess[id].child
                 /\ app'.terminal_session = None
                 /\ app'.terminal_pod_name = None
                 /\ app'.terminal_scroll = 0
                 /\ app'.current_view = "Pods"
                 /\ loop'.ret = "running"]_vars

\* The shell view was left for the Pods view twice, once with the remote
\* process still running and once with a close that failed: both sessions
\* are dropped.
C5_Witness ==
    /\ app.current_view = "Pods"
    /\ app.terminal_session = None
    /\ app.terminal_scroll = 0
    /\ loop.ret = "running"
    /\ sess[1].st = "dropped" /\ sess[1].closed = "Ok"
    /\ sess[1].child = "running"
    /\ sess[2].st = "dropped" /\ sess[2].closed = "Err"

\* C8: send_input, get_screen and close reach a session under its lock
\* only: a call in progress holds the lock of its session, a lock is held
\* by the call in progress and by no other, and a call starts, and close
\* runs, only on a session whose lock is free.
C8_OneLock ==
    /\ [](\A i \in SessionIds :
            sess[i].lock # "free" => (op.kind = sess[i].lock /\ op.sid = i))
    /\ [](op.kind # "none" => sess[op.sid].lock = op.kind)
    /\ [][(op.kind = "none" /\ op'.kind # "none") =>
            sess[op'.sid].lock = "free"]_vars
    /\ [][\A i \in SessionIds :
            sess'[i].closed # sess[i].closed =>
                (op.kind = "none" /\ sess[i].lock = "free")]_vars

\* The draw is inside get_screen, the lock held, a chunk waiting in the
\* channel.
C8_Witness ==
    /\ op.kind = "get_screen"
    /\ sess[op.sid].lock = "get_screen"
    /\ sess[op.sid].queue # <<>>

\* C10: once the reader thread of the session held has left its loop on the
\* end of the stream or a read error, no key and no draw makes handle_event
\* return an error or ends the loop with one.
C10_ReaderEndNotFatal ==
    [][(/\ app.terminal_session # None
        /\ sess[app.terminal_session[1]].wexit \in {"eof", "err"})
           => loop'.ret # "Err"]_vars

\* C3: outside the shell view no key, whatever the cluster answers to the
\* calls it triggers, makes handle_event return an error, and refresh_logs
\* returns none either: the loop ends only on the quit key, with Ok.
C3_ApiFailureNotFatal ==
    /\ [](loop.ret # "Err")
    /\ [][loop'.pc = "done" => (loop'.ret = "Ok" /\ ~Tick)]_vars

\* A call of the cluster API failed and the loop runs on, the failure shown
\* as the error message.
C3_Witness ==
    /\ loop.ret = "running"
    /\ app.current_view # "Terminal"
    /\ app.error_message \in
           {Some("Failed to list deployments"), Some("Failed to delete pod"),
            Some("Failed to scale"), Some("Failed to get logs"),
            Some("Failed to switch context")}

OpenKeys == {Key("1", FALSE), Key("Enter", FALSE)}

\* C11: when the embedded shell is confirmed and the session can be
\* created, handle_event returns with the status "Connecting to pod" while
\* the creation is still to complete: the view is as it was and no session
\* is held yet.
C11_ReturnsWhileConnecting ==
    [][\A key \in OpenKeys : \A e \in Envs(app, sess, key, ShellLists) :
         (RunsOpen(app, key) /\ Opens(e.open) /\ HandleKey(key, e)) =>
             /\ app'.status_message = "Connecting to pod"
             /\ app'.current_view = app.current_view
             /\ app'.terminal_session = None]_vars

\* C12: the creation of a session asks for /bin/bash first and for /bin/sh
\* only when bash failed, never for a third; the error message is set only
\* when both failed, and otherwise the session is created and the message
\* left as it was.
C12_BashThenSh ==
    [][\A key \in OpenKeys : \A e \in Envs(app, sess, key, ShellLists) :
         (RunsOpen(app, key) /\ e.open.join = "ok" /\ HandleKey(key, e)) =>
             LET both == e.open.bash = "err" /\ e.open.sh = "err"
             IN  /\ op'.tried = IF e.open.bash = "ok" THEN <<"/bin/bash">>
                                ELSE <<"/bin/bash", "/bin/sh">>
                 /\ app'.error_message =
                        IF both THEN Some("Failed to exec into pod")
                        ELSE app.error_message
                 /\ (app'.terminal_session # None) <=> ~both
                 /\ ~both => sess'[app'.terminal_session[1]].st = "open"]_vars

\* bash failed, sh answered and the session was created.
C12_Witness ==
    /\ op.tried = <<"/bin/bash", "/bin/sh">>
    /\ app.current_view = "Terminal"
    /\ app.terminal_session # None
    /\ app.error_message = None

\* C13: a creation that succeeds shows the shell view, stores the session
\* and records the name of the pod selected when it started; one that fails
\* leaves the view as it was, stores no session and sets an error message.
C13_OpenResult ==
    [][\A key \in OpenKeys : \A e \in Envs(app, sess, key, ShellLists) :
         (RunsOpen(app, key) /\ HandleKey(key, e)) =>
             IF Opens(e.open)
             THEN /\ app'.current_view = "Terminal"
                  /\ app'.terminal_session # None
                  /\ sess[app'.terminal_session[1]].st = "none"
                  /\ sess'[app'.terminal_session[1]].st = "open"
                  /\ app'.terminal_pod_name = Get(app.pods, app.pod_index)
             ELSE /\ app'.current_view = app.current_view
                  /\ app'.terminal_session = None
                  /\ sess' = sess
                  /\ app'.error_message \in
                         {Some("Failed to exec into pod"),
                          Some("Failed to spawn terminal task")}]_vars

\* A creation failed: the Pods view is still shown, with the error and no
\* session.
C13_Witness ==
    /\ app.current_view = "Pods"
    /\ app.terminal_session = None
    /\ app.error_message = Some("Failed to exec into pod")
    /\ op.tried = <<"/bin/bash", "/bin/sh">>

TabKeys == {Key("Left", FALSE), Key("Right", FALSE)}

TabKeyEvent == KeyFrom(TabKeys, Prefixes, 0)

TabNext == TabKeyEvent

\* The dashboard driven by the Left and Right keys alone.
TabSpec == ListInit /\ [][TabNext]_vars

\* ------------------------------------------------------------- scale mode
\* Digits typed in scale mode before the model stops adding to the buffer:
\* ten digits are the shortest that parse::<i32> can refuse.
MaxScaleDigits == 10

\* The places of the buffer where the model types either digit; further on
\* it types '2' alone.
MaxFreeDigits == 2

ScaleKeys ==
    {Key(c, FALSE) : c \in {"2", "5", "s", "Down", "Enter", "Backspace", "Esc"}}

\* What the list calls answer when they succeed.
ScaleLists == {<<"a", "b">>}

ScaleInit ==
    /\ \E lst \in ListResults(ScaleLists) :
         app = App_new(<<"a">>, "a", OkList(<<"a">>), lst)
    /\ sess = NoSessions
    /\ loop = [pc |-> "draw", ret |-> "running"]
    /\ op = Idle

ScaleKeyEvent ==
    \E key \in ScaleKeys : \E e \in Envs(app, sess, key, ScaleLists) :
        /\ (app.input_mode = "Scale" /\ key.code \in Digits)
             => /\ Len(app.input_buffer) < MaxScaleDigits
                /\ key.code # "2" => Len(app.input_buffer) < MaxFreeDigits
        /\ KeyStep(key, e, AfterScale(app, key, op))

ScaleNext == ScaleKeyEvent

\* The dashboard driven to the deployments and through the scale prompt.
ScaleSpec == ScaleInit /\ [][ScaleNext]_vars

\* ---------------------------------------------------------------- log view
\* Lines of the longest log get_pod_logs answers in the log view.
MaxFollowLines == 3

FollowTexts == {[i \in 1..n |-> "line"] : n \in 0..MaxFollowLines}

LogKeys == {Key(c, FALSE) : c \in {"l", "f", "Up", "k", "Down", "j", "1", "r"}}

LogLists == {<<"a">>}

LogInit ==
    /\ app = App_new(<<"a">>, "a", OkList(<<"a">>), OkList(<<"a">>))
    /\ sess = NoSessions
    /\ loop = [pc |-> "draw", ret |-> "running"]
    /\ op = Idle

\* A key, the logs it asks for answered from FollowTexts.
LogKeyEvent ==
    \E key \in LogKeys : \E e \in Envs(app, sess, key, LogLists) :
    \E logs \in IF key.code = "l" /\ app.current_view = "Pods"
                 THEN ListResults(FollowTexts) ELSE {ErrList} :
        /\ e.logs = ErrList
        /\ KeyStep(key, [e EXCEPT !.logs = logs], op)

LogTick == TickOf(FollowTexts)

LogNext ==
    \/ LogTick
    \/ LogKeyEvent

\* The dashboard driven into the log view and through follow mode.
LogSpec == LogInit /\ [][LogNext]_vars

\* ------------------------------------------------------------ the encoder
\* Bytes the writer holds before the model stops typing: an arrow key is
\* three.
MaxEncoded == 3

\* Key codes of every arm of send_input's match, each with and without
\* CONTROL.
EncoderCodes ==
    {"a", "c", "d", "z", "l", "é", "Enter", "Backspace", "Tab", "Up", "Down",
     "Right", "Left", "Esc", "PageUp", "Home", "Delete", "F1"}

EncoderKeys == {Key(c, ctrl) : c \in EncoderCodes, ctrl \in BOOLEAN}

EncoderNext ==
    \/ CallSendInputOf(EncoderKeys, MaxEncoded)
    \/ ProcessOutput

\* send_input called key after key on a session whose remote side is silent.
EncoderSpec == SessionInit /\ [][EncoderNext]_vars

\* ------------------------------------------------------ the input modes
\* The scale prompt and the choice of a shell entered, confirmed and left,
\* shells opened and closed, the lists empty or not.
ModeKeys ==
    {Key("e", FALSE), Key("s", FALSE), Key("1", FALSE), Key("2", FALSE),
     Key("Enter", FALSE), Key("Esc", FALSE), Key("Up", FALSE),
     Key("Down", FALSE), Key("d", TRUE)}

ModeLists == {<<>>, <<"a">>}

ModeKeyEvent == KeyFrom(ModeKeys, ModeLists, MaxSessions)

ModeInit ==
    /\ \E lst \in ListResults(ModeLists) :
         app = App_new(<<"a">>, "a", OkList(<<"default">>), lst)
    /\ sess = NoSessions
    /\ loop = [pc |-> "draw", ret |-> "running"]
    /\ op = Idle

ModeNext ==
    \/ Draw
    \/ PollTimeout
    \/ ModeKeyEvent
    \/ ProcessOutput

ModeSpec == ModeInit /\ [][ModeNext]_vars

\* --------------------------------------------------- the selected item
\* The operations on the selected item of every list view, the lists empty
\* or not, no shell opened.
SelectKeys ==
    {Key(c, FALSE) : c \in {"2", "4", "5", "d", "l", "e", "s", "Enter"}}

SelectKeyEvent == KeyFrom(SelectKeys, ModeLists, 0)

SelectNext == SelectKeyEvent

SelectSpec == ModeInit /\ [][SelectNext]_vars

\* ------------------------------------------------------------ the process
\* Hand-offs of the terminal asked for during one run.
MaxHandOffs == 2

MainKeys == {Key(c, FALSE) : c \in {"q", "1", "Down"}}

MainLists == {<<"a">>}

\* What App::new can find at startup.
Startups ==
    {Startup(contexts, current, client, ns, lst) :
        contexts \in ListResults({<<>>, <<"a">>}),
        current \in {[ok |-> FALSE, name |-> ""], [ok |-> TRUE, name |-> ""],
                     [ok |-> TRUE, name |-> "a"]},
        client \in {"ok", "err"},
        ns \in ListResults({<<>>, <<"ns">>}),
        lst \in ListResults(MainLists)}

\* main returns the error of a `?`: the runtime prints it and the process
\* exits with code 1.
MainErr(l, why) ==
    [l EXCEPT !.pc = "exit", !.code = 1, !.printed = TRUE, !.why = why]

\* run_app returns r to main.
Return(l, r) == [l EXCEPT !.pc = "disable_raw_mode", !.ret = r]

\* enable_raw_mode()?
EnableRawMode ==
    /\ loop.pc = "enable_raw_mode"
    /\ \E ok \in BOOLEAN :
         loop' = IF ok THEN [loop EXCEPT !.pc = "enter", !.raw = TRUE]
                 ELSE MainErr(loop, "enable_raw_mode")
    /\ UNCHANGED <<app, sess, op>>

\* execute!(stdout, EnterAlternateScreen, EnableMouseCapture)?
EnterAlternateScreen ==
    /\ loop.pc = "enter"
    /\ \E ok \in BOOLEAN :
         loop' = IF ok THEN [loop EXCEPT !.pc = "terminal", !.alt = TRUE]
                 ELSE MainErr(loop, "EnterAlternateScreen")
    /\ UNCHANGED <<app, sess, op>>

\* Terminal::new(backend)?
TerminalNew ==
    /\ loop.pc = "terminal"
    /\ \E ok \in BOOLEAN :
         loop' = IF ok THEN [loop EXCEPT !.pc = "new"] ELSE MainErr(loop, "Terminal::new")
    /\ UNCHANGED <<app, sess, op>>

\* App::new().await?
AppNew ==
    /\ loop.pc = "new"
    /\ \E c \in Startups :
         LET r == App_new_result(c)
         IN  IF r.ok
             THEN /\ app' = r.app @@ [pending_action |-> None]
                  /\ loop' = [loop EXCEPT !.pc = "draw", !.startup = Some(c),
                                          !.calls = r.calls]
             ELSE /\ app' = app
                  /\ loop' = [MainErr(loop, r.why) EXCEPT !.startup = Some(c),
                                                          !.calls = r.calls]
    /\ UNCHANGED <<sess, op>>

\* terminal.draw(|f| ui(f, &mut app))?
MainDraw ==
    /\ loop.pc = "draw"
    /\ \E ok \in BOOLEAN :
         loop' = IF ok THEN [loop EXCEPT !.pc = "take"]
                 ELSE Return(loop, "Err")
    /\ UNCHANGED <<app, sess, op>>

\* if let Some(action) = app.take_pending_action()
TakePendingAction ==
    /\ loop.pc = "take"
    /\ LET r == take_pending_action(app)
       IN  /\ app' = r.app
           /\ loop' = IF r.ret = None THEN [loop EXCEPT !.pc = "event"]
                      ELSE [loop EXCEPT !.pc = "suspend", !.action = r.ret,
                                        !.takes = @ + 1]
    /\ UNCHANGED <<sess, op>>

\* Suspend TUI: disable_raw_mode()?
SuspendRawMode ==
    /\ loop.pc = "suspend"
    /\ \E ok \in BOOLEAN :
         loop' = IF ok THEN [loop EXCEPT !.pc = "suspend_leave", !.raw = FALSE]
                 ELSE Return(loop, "Err")
    /\ UNCHANGED <<app, sess, op>>

\* Suspend TUI: execute!(..., LeaveAlternateScreen, DisableMouseCapture)?
SuspendScreen ==
    /\ loop.pc = "suspend_leave"
    /\ \E ok \in BOOLEAN :
         loop' = IF ok THEN [loop EXCEPT !.pc = "exec", !.alt = FALSE]
                 ELSE Return(loop, "Err")
    /\ UNCHANGED <<app, sess, op>>

\* The hand-off with `?` on its result: a failed one ends run_app.
HandOff_or_return ==
    /\ loop.pc = "exec"
    /\ \E result \in {"Ok", "Err"} :
         loop' = IF result = "Ok"
                 THEN [loop EXCEPT !.pc = "resume", !.result = result,
                                   !.handoffs = @ + 1]
                 ELSE [Return(loop, "Err") EXCEPT !.result = result,
                                                  !.handoffs = @ + 1]
    /\ UNCHANGED <<app, sess, op>>

\* let result = KubeClient::exec_into_pod(&namespace, &pod_name)
HandOff ==
    /\ loop.pc = "exec"
    /\ \E result \in {"Ok", "Err"} :
         loop' = [loop EXCEPT !.pc = "resume", !.result = result,
                              !.handoffs = @ + 1]
    /\ UNCHANGED <<app, sess, op>>

\* Resume TUI: enable_raw_mode()?
ResumeRawMode ==
    /\ loop.pc = "resume"
    /\ \E ok \in BOOLEAN :
         loop' = IF ok
                 THEN [loop EXCEPT !.pc = "resume_enter", !.raw = TRUE,
                                   !.resumes = @ + 1]
                 ELSE [Return(loop, "Err") EXCEPT !.resumes = @ + 1]
    /\ UNCHANGED <<app, sess, op>>

\* Resume TUI: execute!(..., EnterAlternateScreen, EnableMouseCapture)?
ResumeScreen ==
    /\ loop.pc = "resume_enter"
    /\ \E ok \in BOOLEAN :
         loop' = IF ok THEN [loop EXCEPT !.pc = "clear", !.alt = TRUE]
                 ELSE Return(loop, "Err")
    /\ UNCHANGED <<app, sess, op>>

\* terminal.clear()? and the result of the hand-off made a message.
SetExecResult ==
    /\ loop.pc = "clear"
    /\ \E ok \in BOOLEAN :
         IF ok
         THEN /\ app' = set_exec_result(app, loop.action[1].pod_name,
                                        loop.result = "Ok")
              /\ loop' = [loop EXCEPT !.pc = "event", !.action = None,
                                      !.result = ""]
         ELSE /\ app' = app
              /\ loop' = Return(loop, "Err")
    /\ UNCHANGED <<sess, op>>

\* The log refresh when its interval has elapsed, then
\* event_handler.next()?: an error, no event, or a key for handle_event.
MainEvent ==
    /\ loop.pc = "event"
    /\ op' = op
    /\ \E tick \in BOOLEAN :
         LET a == IF tick THEN refresh_logs(app, sess, [logs |-> ErrList]).app
                  ELSE app
         IN  \/ /\ app' = a
                /\ sess' = sess
                /\ \E next \in {"Err", "None"} :
                     loop' = IF next = "Err" THEN Return(loop, "Err")
                             ELSE [loop EXCEPT !.pc = "draw"]
             \/ \E key \in MainKeys : \E e \in Envs(a, sess, key, MainLists) :
                  LET r == handle_event(a, sess, key, e)
                  IN  /\ app' = r.app
                      /\ sess' = r.sess
                      /\ loop' = CASE r.ret = "Err" -> Return(loop, "Err")
                                   [] r.ret = "Ok(false)" -> Return(loop, "Ok")
                                   [] OTHER -> [loop EXCEPT !.pc = "draw"]

\* A key makes the state machine ask for a hand-off.
RequestExec ==
    /\ loop.pc = "event"
    /\ loop.requests < MaxHandOffs
    /\ request_exec(app) # app
    /\ app' = request_exec(app)
    /\ loop' = [loop EXCEPT !.pc = "draw", !.requests = @ + 1]
    /\ UNCHANGED <<sess, op>>

\* Restore terminal: disable_raw_mode()?
DisableRawMode ==
    /\ loop.pc = "disable_raw_mode"
    /\ \E ok \in BOOLEAN :
         loop' = IF ok THEN [loop EXCEPT !.pc = "leave", !.raw = FALSE]
                 ELSE MainErr(loop, "disable_raw_mode")
    /\ UNCHANGED <<app, sess, op>>

\* Restore terminal: execute!(..., LeaveAlternateScreen, DisableMouseCapture)?
LeaveAlternateScreen ==
    /\ loop.pc = "leave"
    /\ \E ok \in BOOLEAN :
         loop' = IF ok THEN [loop EXCEPT !.pc = "show_cursor", !.alt = FALSE]
                 ELSE MainErr(loop, "LeaveAlternateScreen")
    /\ UNCHANGED <<app, sess, op>>

\* The end of main with `?` on the result of run_app.
MainExit_propagates ==
    /\ loop.pc = "show_cursor"
    /\ \E ok \in BOOLEAN :
         loop' = CASE ~ok -> MainErr(loop, "show_cursor")
                   [] loop.ret = "Err" -> MainErr(loop, "")
                   [] OTHER -> [loop EXCEPT !.pc = "exit", !.code = 0]
    /\ UNCHANGED <<app, sess, op>>

\* terminal.show_cursor()?, then the error of run_app is printed, if any, and
\* main returns Ok(()).
MainExit ==
    /\ loop.pc = "show_cursor"
    /\ \E ok \in BOOLEAN :
         loop' = IF ok
                 THEN [loop EXCEPT !.pc = "exit", !.code = 0,
                                   !.printed = (loop.ret = "Err")]
                 ELSE MainErr(loop, "show_cursor")
    /\ UNCHANGED <<app, sess, op>>

\* The process at the start of main. raw and alt are the terminal's raw mode
\* and alternate screen, code the exit code once the process has exited,
\* printed whether an error was printed, ret what run_app returned. startup,
\* calls and why keep what App::new found, the list calls it made and the
\* error main returned; action and result are the locals of the
\* hand-off; requests, takes, handoffs and resumes count the pending actions
\* set, taken and handed off and the resumptions begun.
MainInit ==
    /\ app = None
    /\ sess = NoSessions
    /\ op = Idle
    /\ loop = [pc |-> "enable_raw_mode", ret |-> "running", raw |-> FALSE,
               alt |-> FALSE, code |-> -1, printed |-> FALSE,
               startup |-> None, calls |-> <<>>, why |-> "",
               action |-> None, result |-> "", requests |-> 0, takes |-> 0,
               handoffs |-> 0, resumes |-> 0]

MainNext ==
    \/ EnableRawMode
    \/ EnterAlternateScreen
    \/ TerminalNew
    \/ AppNew
    \/ MainDraw
    \/ TakePendingAction
    \/ SuspendRawMode
    \/ SuspendScreen
    \/ HandOff
    \/ ResumeRawMode
    \/ ResumeScreen
    \/ SetExecResult
    \/ MainEvent
    \/ RequestExec
    \/ DisableRawMode
    \/ LeaveAlternateScreen
    \/ MainExit

\* The process from the start of main to its exit.
MainSpec == MainInit /\ [][MainNext]_vars

\* ------------------------------------------------- the emulator's screen
\* Bytes the remote process writes while the screen is read.
MaxScreenBytes == 6

\* get_screen from its call to its return; a chunk sent while it drains the
\* channel is a chunk sent before it or after it.
GetScreen ==
    /\ CanCall
    /\ LET r == get_screen(sess[1])
       IN  /\ sess' = [sess EXCEPT ![1] = r.s]
           /\ op' = [Idle EXCEPT !.sid = 1, !.call = "get_screen",
                                 !.had = Len(Flatten(sess[1].queue)),
                                 !.ret = "Ok", !.lines = r.lines,
                                 !.fed = Len(sess[1].parser)]
    /\ UNCHANGED <<app, loop>>

EmulatorNext ==
    \/ GetScreen
    \/ Background(MaxScreenBytes)

\* The screen of a session read again and again while the remote process
\* writes and the reader thread forwards what it read, in chunks of any size.
EmulatorSpec == SessionInit /\ [][EmulatorNext]_vars

ListViews == {"Pods", "Deployments", "Services", "Clusters", "Namespaces"}

\* The backing list of a list view and its selection index.
Items(a, v) ==
    CASE v = "Pods" -> a.pods
      [] v = "Deployments" -> a.deployments
      [] v = "Services" -> a.services
      [] v = "Clusters" -> a.contexts
      [] v = "Namespaces" -> a.namespaces
      [] OTHER -> <<>>

Index(a, v) ==
    CASE v = "Pods" -> a.pod_index
      [] v = "Deployments" -> a.deployment_index
      [] v = "Services" -> a.service_index
      [] v = "Clusters" -> a.context_index
      [] v = "Namespaces" -> a.namespace_index
      [] OTHER -> 0

\* index < max(1, list_length)
InBounds(a, v) ==
    Index(a, v) < (IF Len(Items(a, v)) > 1 THEN Len(Items(a, v)) ELSE 1)

\* The keys that refresh the view they show.
RefreshKeys == {Key(c, FALSE) : c \in {"1", "2", "3", "4", "5", "r"}}

\* C14: after a refresh of a list view, whether its call succeeded or
\* failed, the index of the view is below max(1, length of its list), and it
\* is the index of before when that one was in bounds and the list did not
\* shrink.
C14_RefreshKeepsIndexInBounds ==
    \A key \in RefreshKeys : \A e \in Envs(app, sess, key, Prefixes) :
        LET r == handle_event(app, sess, key, e)
            v == r.app.current_view
        IN  /\ InBounds(r.app, v)
            /\ (InBounds(app, v)
                  /\ Len(Items(r.app, v)) >= Len(Items(app, v)))
                 => Index(r.app, v) = Index(app, v)

\* A refresh answered one pod where two were listed and the second
\* selected: the index was clamped to the one left.
C14_Witness ==
    /\ app.current_view = "Pods"
    /\ Len(app.pods) = 1
    /\ app.pod_index = 0
    /\ Len(app.deployments) = 2
    /\ app.deployment_index = 1
    /\ app.error_message = None

\* C15: in every reachable state each of the five selection indices is
\* below max(1, length of its list): a list replaced by a shorter one has
\* its index clamped in the same step.
C15_IndicesInBounds == \A v \in ListViews : InBounds(app, v)

\* C16: a refresh of a list view that holds items and whose call fails
\* leaves the list and its index as they were and an error message set, and
\* returns no error.
C16_FailedRefreshKeepsList ==
    \A key \in RefreshKeys : \A e \in Envs(app, sess, key, Prefixes) :
        LET r == handle_event(app, sess, key, e)
            v == r.app.current_view
        IN  (~e.lst.ok /\ v \in ListViews \ {"Namespaces"}
               /\ Items(app, v) # <<>>) =>
                /\ Items(r.app, v) = Items(app, v)
                /\ Index(r.app, v) = Index(app, v)
                /\ r.app.error_message # None
                /\ r.ret = "Ok(true)"

\* The refresh of two deployments, the second selected, failed.
C16_Witness ==
    /\ app.current_view = "Deployments"
    /\ Len(app.deployments) = 2
    /\ app.deployment_index = 1
    /\ app.error_message = Some("Failed to list deployments")

UpKeys == {Key("Up", FALSE), Key("k", FALSE)}
DownKeys == {Key("Down", FALSE), Key("j", FALSE)}

\* C17: in a list view Up (k) takes the index one down unless it is 0 and
\* Down (j) takes it one up unless it is the last, the index of an empty
\* list staying 0; neither wraps, and neither touches another index or a
\* list.
C17_UpDownClamp ==
    \A key \in UpKeys \cup DownKeys :
    \A e \in Envs(app, sess, key, Prefixes) :
        LET r == handle_event(app, sess, key, e)
            v == app.current_view
            i == Index(app, v)
            n == Len(Items(app, v))
        IN  v \in ListViews =>
                /\ Index(r.app, v) =
                       IF key \in UpKeys
                       THEN (IF i = 0 THEN 0 ELSE i - 1)
                       ELSE (IF i + 1 >= n THEN i ELSE i + 1)
                /\ r.app.current_view = v
                /\ \A w \in ListViews :
                     /\ Items(r.app, w) = Items(app, w)
                     /\ w # v => Index(r.app, w) = Index(app, w)

\* Down was pressed in three views: the contexts, the namespaces and the
\* services each have their last item selected.
C17_Witness ==
    /\ app.context_index > 0 /\ app.context_index = Len(app.contexts) - 1
    /\ app.namespace_index > 0
    /\ app.namespace_index = Len(app.namespaces) - 1
    /\ app.service_index > 0 /\ app.service_index = Len(app.services) - 1

\* The view the key takes the dashboard to, whatever the refresh answers.
ViewsAfter(a, key) ==
    {handle_event(a, sess, key, e).app.current_view :
        e \in Envs(a, sess, key, Prefixes)}

\* C18: over the six top-level views Left goes to the tab before and Right
\* to the tab after, Left from the first going to the last and Right from
\* the last to the first; Left then Right, and Right then Left, come back to
\* the view they left.
C18_TabsWrap ==
    Position(app.current_view) # None =>
        LET p == Position(app.current_view)[1]
            n == Len(Tabs)
            left == Key("Left", FALSE)
            right == Key("Right", FALSE)
        IN  /\ ViewsAfter(app, left) = {Tabs[((p + n - 1) % n) + 1]}
            /\ ViewsAfter(app, right) = {Tabs[((p + 1) % n) + 1]}
            /\ \A e \in Envs(app, sess, left, Prefixes) :
                 ViewsAfter(handle_event(app, sess, left, e).app, right)
                     = {app.current_view}
            /\ \A e \in Envs(app, sess, right, Prefixes) :
                 ViewsAfter(handle_event(app, sess, right, e).app, left)
                     = {app.current_view}

\* Left from the Pods view at the start: the Help view, no list of a view in
\* between ever asked for.
C18_Witness ==
    /\ app.current_view = "Help"
    /\ app.deployments = <<>> /\ app.services = <<>>
    /\ Len(app.contexts) = MaxItems
    /\ app.error_message = None

\* 2^31 - 1 in digits.
I32MaxDigits == <<"2", "1", "4", "7", "4", "8", "3", "6", "4", "7">>

\* The first sequence of digits is not after the second, place by place.
RECURSIVE NotAfter(_, _)
NotAfter(x, y) ==
    \/ x = <<>>
    \/ DigitVal(Head(x)) < DigitVal(Head(y))
    \/ Head(x) = Head(y) /\ NotAfter(Tail(x), Tail(y))

\* The digits, none of them a leading zero, denote a value an i32 holds.
Fits(buf) ==
    \/ Len(buf) < Len(I32MaxDigits)
    \/ Len(buf) = Len(I32MaxDigits) /\ NotAfter(buf, I32MaxDigits)

\* The decimal value of digits that fit: the digit of each place times its
\* power of ten.
RECURSIVE Power10(_)
Power10(n) == IF n = 0 THEN 1 ELSE 10 * Power10(n - 1)

RECURSIVE Sum(_, _)
Sum(f, n) == IF n = 0 THEN 0 ELSE f[n] + Sum(f, n - 1)

Value(buf) ==
    Sum([k \in 1..Len(buf) |-> DigitVal(buf[k]) * Power10(Len(buf) - k)],
        Len(buf))

\* Enter in scale mode with a deployment selected and digits typed.
ScaleEntered ==
    /\ app.current_view # "Terminal"
    /\ app.input_mode = "Scale"
    /\ app.input_buffer # <<>>
    /\ app.deployment_index < Len(app.deployments)

\* What Enter does then, under answer e, with `calls` the scale_deployment
\* calls expected of it.
ScaleOutcome(e, calls) ==
    LET enter == Key("Enter", FALSE)
        r == handle_event(app, sess, enter, e)
    IN  /\ AfterScale(app, enter, op).scaled = calls
        /\ r.app.input_mode = "Normal"
        /\ r.app.input_buffer = <<>>
        /\ r.ret = "Ok(true)"
        /\ (calls # <<>> /\ e.api = "err")
             => r.app.error_message = Some("Failed to scale")
        /\ (calls # <<>> /\ e.api = "ok") => r.app.status_message = "Scaled"
        /\ calls = <<>> => r.app = [app EXCEPT !.input_mode = "Normal",
                                               !.input_buffer = <<>>]

\* The one call for the selected deployment and the decimal value of the
\* buffer.
OneScaleCall ==
    <<[namespace |-> app.current_namespace,
       name |-> app.deployments[app.deployment_index + 1],
       replicas |-> Value(app.input_buffer)]>>

\* The calls Enter made in this state.
ScaleCalls == AfterScale(app, Key("Enter", FALSE), op).scaled

\* C19 as stated: in scale mode with a deployment selected and digits
\* typed, Enter calls scale_deployment once, for the selected deployment
\* with the decimal value of the digits (25 for '2','5'), and leaves the
\* mode Normal and the buffer empty whether the call succeeded or failed.
C19_ScaleOnceThenNormal ==
    ScaleEntered =>
        /\ Len(ScaleCalls) = 1
        /\ Fits(app.input_buffer) => ScaleCalls = OneScaleCall
        /\ \A e \in Envs(app, sess, Key("Enter", FALSE), ScaleLists) :
             ScaleOutcome(e, ScaleCalls)

\* C19 amended: the call is made when the value of the digits fits an i32
\* (25 for '2','5'); above 2^31 - 1 Enter makes no call and reports nothing;
\* either way the mode is Normal and the buffer empty afterwards.
C19_ScaleOnceWhenParsed ==
    ScaleEntered =>
        /\ \A e \in Envs(app, sess, Key("Enter", FALSE), ScaleLists) :
             ScaleOutcome(e, IF Fits(app.input_buffer) THEN OneScaleCall
                             ELSE <<>>)
        /\ app.input_buffer = <<"2", "5">> => OneScaleCall[1].replicas = 25

\* Enter after '2','5' with the second deployment selected: the call for 25
\* replicas failed and the prompt is left.
C19_Witness ==
    /\ op.scaled = <<[namespace |-> "a", name |-> "b", replicas |-> 25]>>
    /\ app.error_message = Some("Failed to scale")
    /\ app.input_mode = "Normal"
    /\ app.input_buffer = <<>>

\* The log view in follow mode, the scroll position at the last line.
FollowingAtEnd ==
    /\ app.current_view = "Logs"
    /\ app.logs_follow
    /\ app.logs_scroll = saturating_sub(Len(app.logs), 1)

\* What Up (k) makes of the state.
AfterUp == {handle_event(app, sess, key, e).app :
               key \in UpKeys, e \in Envs(app, sess, Key("Up", FALSE), LogLists)}

\* C20: in the log view with follow enabled and the scroll
\* position at the last line, Up disables follow and takes the scroll
\* position one line up.
C20_UpLeavesFollow ==
    FollowingAtEnd =>
        \A a \in AfterUp : /\ ~a.logs_follow
                           /\ a.logs_scroll + 1 = app.logs_scroll

\* The manual scroll keys of the log view.
ScrollKeys == UpKeys \cup DownKeys

\* C21: in the log view with follow enabled, Up (k) and Down (j) each leave
\* follow disabled, at every scroll position and for every length of the
\* log.
C21_ScrollLeavesFollow ==
    (app.current_view = "Logs" /\ app.input_mode = "Normal"
       /\ app.logs_follow) =>
        \A key \in ScrollKeys : \A e \in Envs(app, sess, key, LogLists) :
            ~handle_event(app, sess, key, e).app.logs_follow

\* C22: the tick fetches the log only in the log view with follow enabled;
\* in every other state it makes no call and, whatever a call would have
\* answered, changes nothing of the dashboard and returns no error.
C22_TickFetchesOnlyFollowing ==
    /\ [](log_fetches(app) # <<>>
            => (app.current_view = "Logs" /\ app.logs_follow))
    /\ [](~(app.current_view = "Logs" /\ app.logs_follow) =>
            \A logs \in ListResults(FollowTexts) :
                LET r == refresh_logs(app, sess, [logs |-> logs])
                IN  r.app = app /\ r.sess = sess /\ r.ret = "Ok")
    /\ [][(LogTick /\ ~(app.current_view = "Logs" /\ app.logs_follow))
            => UNCHANGED vars]_vars

\* Follow mode was left on when key 1 took the dashboard from the log of a
\* pod back to the pods: the ticks there fetch nothing.
C22_Witness ==
    /\ app.current_view = "Pods"
    /\ app.logs_follow
    /\ app.logs_pod_name = Some("a")
    /\ Len(app.logs) = 1
    /\ app.logs_scroll = 0

\* The table of the Input Encoder.
EncoderTable(key) ==
    CASE key.code \in {"a", "c", "d", "z", "l", "é"} /\ ~key.ctrl ->
           (CASE key.code = "a" -> <<97>>
              [] key.code = "c" -> <<99>>
              [] key.code = "d" -> <<100>>
              [] key.code = "z" -> <<122>>
              [] key.code = "l" -> <<108>>
              [] key.code = "é" -> <<195, 169>>)
      [] key = Key("c", TRUE) -> <<3>>
      [] key = Key("d", TRUE) -> <<4>>
      [] key = Key("z", TRUE) -> <<26>>
      [] key = Key("l", TRUE) -> <<12>>
      [] key.code = "Enter" -> <<13>>
      [] key.code = "Backspace" -> <<127>>
      [] key.code = "Tab" -> <<9>>
      [] key.code = "Up" -> <<27, 91, 65>>
      [] key.code = "Down" -> <<27, 91, 66>>
      [] key.code = "Right" -> <<27, 91, 67>>
      [] key.code = "Left" -> <<27, 91, 68>>
      [] OTHER -> <<>>

\* C23: whatever the session holds, send_input writes for a key the bytes
\* of the table and nothing else: the UTF-8 bytes of a character, 0x0D for
\* Enter, 0x7F for Backspace, 0x09 for Tab, ESC [ A/B/C/D for the arrows,
\* 0x03/0x04/0x1A/0x0C for Ctrl+c/d/z/l, and for every other key no bytes,
\* the writer then not being written to.
C23_EncoderTable ==
    /\ sess[1].st = "open" =>
         \A key \in EncoderKeys :
             LET r == send_input(sess[1], key, "ok")
             IN  /\ encode(key) = EncoderTable(key)
                 /\ r.s = [sess[1] EXCEPT !.written = @ \o EncoderTable(key)]
                 /\ r.ret = "Ok"
                 /\ EncoderTable(key) = <<>> => r.s = sess[1]
    /\ op.call = "send_input" =>
         \E key \in EncoderKeys : op.wrote = EncoderTable(key)

\* Left was sent on a new session: the writer holds ESC [ D.
C23_Witness ==
    /\ op.call = "send_input"
    /\ op.wrote = <<27, 91, 68>>
    /\ sess[1].written = <<27, 91, 68>>

\* C24: get_screen called again when the channel holds no chunk returns the
\* lines the call before it returned and leaves the session, its parser's
\* screen, its writer and its channel, as it was.
C24_GetScreenIdempotent ==
    [][(GetScreen /\ op.call = "get_screen" /\ sess[1].queue = <<>>)
          => (op'.lines = op.lines /\ sess' = sess)]_vars

\* get_screen returned lines that are not blank and is called again, the
\* channel empty.
C24_Witness ==
    /\ op.call = "get_screen"
    /\ op.had = 0
    /\ op.fed = Len(sess[1].parser)
    /\ op.fed > 0
    /\ op.lines # <<>>

\* C25: get_screen returns exactly 24 lines, whatever the screen holds.
C25_GetScreenRows ==
    op.call = "get_screen" => Len(op.lines) = Rows

InHandOff ==
    loop.pc \in {"suspend", "suspend_leave", "exec", "resume", "resume_enter",
                 "clear"}

\* run_app is in its loop, outside the hand-off.
Rendering == loop.pc \in {"draw", "take", "event"}

\* Pending actions set and not taken yet.
Pending == IF app # None /\ app.pending_action # None THEN 1 ELSE 0

\* Every pending action set is taken at most once and none is pending from
\* the take to the next event; a hand-off is made for a taken action only,
\* once, the resumption is begun after it whatever it returned, and
\* rendering goes on with the terminal in raw mode and on the alternate
\* screen.
HandOffOnce ==
    /\ loop.takes + Pending = loop.requests
    /\ loop.handoffs <= loop.takes
    /\ loop.takes <= loop.handoffs + 1
    /\ (InHandOff \/ loop.pc = "event") => Pending = 0
    /\ InHandOff => loop.takes = loop.handoffs + (IF loop.pc \in
                        {"suspend", "suspend_leave", "exec"} THEN 1 ELSE 0)
    /\ loop.resumes = loop.handoffs - (IF loop.pc = "resume" THEN 1 ELSE 0)
    /\ Rendering => (loop.handoffs = loop.takes /\ loop.raw /\ loop.alt)

\* C27: a pending hand-off action is consumed exactly once; for each taken
\* action the loop suspends rendering, performs the hand-off once and resumes
\* rendering, whether the hand-off succeeded or failed.
C27_EveryTakeHandedOff ==
    /\ HandOffOnce
    /\ ~InHandOff => loop.handoffs = loop.takes

\* C27, amended: as above, unless a terminal call of the suspension fails
\* before the hand-off: then run_app returns the error and the action taken
\* is never handed off.
C27_HandOffOnceUnlessTerminalFails ==
    /\ HandOffOnce
    /\ (~InHandOff /\ loop.handoffs # loop.takes)
         => (loop.ret = "Err" /\ loop.action # None /\ loop.result = "")
    /\ (~InHandOff /\ loop.ret = "Ok") => loop.handoffs = loop.takes

\* A hand-off failed and the loop is rendering again, its error shown.
C27_Witness ==
    /\ loop.pc = "event"
    /\ loop.handoffs = 1
    /\ loop.takes = 1
    /\ loop.raw /\ loop.alt
    /\ app.pending_action = None
    /\ app.error_message = Some("Exec failed")

\* C28: the process exits with raw mode and the alternate screen left, on
\* every path, the error exits included.
C28_TerminalRestoredAtExit ==
    loop.pc = "exit" => (~loop.raw /\ ~loop.alt)

\* The errors App::new bails out with.
StartupFailures ==
    {"No Kubernetes contexts found", "No current context set",
     "Failed to initialize Kubernetes client"}

\* The terminal calls of main followed by `?`.
TerminalCalls ==
    {"enable_raw_mode", "EnterAlternateScreen", "Terminal::new",
     "disable_raw_mode", "LeaveAlternateScreen", "show_cursor"}

\* C29: the exit code is 0 on a clean quit, and is not 0, with a printed
\* error, only when the startup failed for want of contexts, of a current
\* context or of a client.
C29_ExitCodes ==
    loop.pc = "exit"
        => /\ loop.ret = "Ok" => loop.code = 0
           /\ loop.code # 0 => (loop.printed /\ loop.why \in StartupFailures)

\* C29, amended: the exit code is 0 when run_app returned, with Ok or with
\* an error, which is printed, and the terminal was restored; it is 1, with
\* a printed error, when App::new failed or a terminal call of main failed,
\* at startup or while restoring, a clean quit before it or not.
C29_ExitCodesWithTerminalFailures ==
    loop.pc = "exit"
        => /\ loop.code \in {0, 1}
           /\ loop.code = 1 <=> loop.why \in StartupFailures \cup TerminalCalls
           /\ loop.code = 0 <=> loop.why = ""
           /\ loop.code = 0 => (loop.ret \in {"Ok", "Err"}
                                  /\ ~loop.raw /\ ~loop.alt)
           /\ loop.printed <=> (loop.code = 1 \/ loop.ret = "Err")
           /\ loop.why \in StartupFailures
                 <=> (loop.startup # None /\ loop.ret = "running")

\* run_app returned an error and the process printed it and exited with 0.
C29_Witness ==
    /\ loop.pc = "exit"
    /\ loop.ret = "Err"
    /\ loop.code = 0
    /\ loop.printed

\* What the startup found is fatal: no contexts, no current context or no
\* client.
Fatal(c) ==
    \/ ~c.contexts.ok \/ c.contexts.items = <<>>
    \/ ~c.current.ok \/ c.current.name = ""
    \/ c.client = "err"

\* C30: App::new fails on an empty context list, an empty current context or
\* a failed client; with a client that cannot list namespaces the dashboard
\* starts in the Clusters view with an error message, namespace 'default' and
\* no list refresh; otherwise in the Pods view with no error from the
\* startup checks.
C30_Startup ==
    [][loop.pc = "new" =>
        LET c == loop'.startup[1]
        IN  /\ Fatal(c) => (loop'.pc = "exit" /\ loop'.code = 1 /\ app' = None
                             /\ loop'.calls = <<>>)
            /\ (~Fatal(c) /\ ~c.ns.ok)
                  => /\ loop'.pc = "draw"
                     /\ app'.current_view = "Clusters"
                     /\ app'.error_message # None
                     /\ app'.current_namespace = "default"
                     /\ app'.namespaces = <<"default">>
                     /\ loop'.calls = <<"list_namespaces">>
                     /\ app'.pods = <<>>
            /\ (~Fatal(c) /\ c.ns.ok)
                  => /\ loop'.pc = "draw"
                     /\ app'.current_view = "Pods"
                     /\ app'.error_message # None => ~c.lst.ok
                     /\ loop'.calls = <<"list_namespaces", "list_pods">>
                     /\ app'.current_namespace =
                            IF c.ns.items = <<>> THEN "default"
                            ELSE c.ns.items[1]]_vars

\* The dashboard started with a client that could not list the namespaces.
C30_Witness ==
    /\ loop.pc = "draw"
    /\ loop.startup # None
    /\ ~loop.startup[1].ns.ok
    /\ loop.requests = 0
    /\ app.current_view = "Clusters"
    /\ app.error_message = Some("Failed to connect to cluster")
    /\ loop.calls = <<"list_namespaces">>

\* C31: the channel between the reader thread and the parser has a fixed
\* capacity: however much the remote process writes while nothing drains the
\* channel, the chunks queued stay fewer than the bytes it writes.
C31_QueueBounded ==
    \A i \in SessionIds : Len(sess[i].queue) < MaxBytes

\* C32: Enter in the Clusters view, the context switched and the client
\* built but list_namespaces failing: when the handler returns an error
\* message is present, the namespaces are <<"default">> and the view is still
\* Clusters.
C32_UnreachableKeepsError ==
    (app.current_view = "Clusters" /\ app.input_mode = "Normal"
        /\ Get(app.contexts, app.context_index) # None)
    => \A e \in Envs(app, sess, Key("Enter", FALSE), Prefixes) :
         (e.api = "ok" /\ e.client = "ok" /\ ~e.ns.ok)
         => LET r == handle_event(app, sess, Key("Enter", FALSE), e)
            IN  /\ r.ret = "Ok(true)"
                /\ r.app.error_message # None
                /\ r.app.namespaces = <<"default">>
                /\ r.app.current_view = "Clusters"

\* The sessions that exist.
OpenIds(ss) == {i \in SessionIds : ss[i].st = "open"}

\* C33: the view becomes the shell view, and a session is created, only by a
\* key handled in TerminalChoice mode with the Pods view shown and a pod
\* selected; Esc in that mode returns to Normal and creates nothing; '1',
\* '2' and Enter return to Normal whether the open succeeds or not.
C33_OpenedFromChoiceOnly ==
    \A key \in ModeKeys : \A e \in Envs(app, sess, key, ModeLists) :
        LET r == handle_event(app, sess, key, e)
            choice == app.current_view # "Terminal"
                         /\ app.input_mode = "TerminalChoice"
        IN  /\ ((r.app.current_view = "Terminal"
                    /\ app.current_view # "Terminal")
                 \/ ~(OpenIds(r.sess) \subseteq OpenIds(sess)))
                  => /\ choice
                     /\ app.current_view = "Pods"
                     /\ Get(app.pods, app.pod_index) # None
                     /\ key.code \in {"1", "Enter"}
            /\ (choice /\ key.code = "Esc")
                  => /\ r.app.input_mode = "Normal"
                     /\ r.app.current_view = app.current_view
                     /\ r.app.terminal_session = None
                     /\ r.sess = sess
            /\ (choice /\ key.code \in {"1", "2", "Enter"})
                  => /\ r.app.input_mode = "Normal"
                     /\ r.ret = "Ok(true)"

\* A shell was chosen and could not be opened: the mode is Normal again, the
\* Pods view still shown.
C33_Witness ==
    /\ app.current_view = "Pods"
    /\ app.input_mode = "Normal"
    /\ app.terminal_session = None
    /\ app.error_message = Some("Failed to exec into pod")
    /\ app.status_message = "Connecting to pod"

\* C34: a session is held exactly when the shell view is shown, and
\* terminal_pod_name is set exactly when a session is held.
C34_SessionIffShellView ==
    /\ app.terminal_session # None <=> app.current_view = "Terminal"
    /\ app.terminal_pod_name # None <=> app.terminal_session # None

\* A second shell is shown, the first one closed and dropped.
C34_Witness ==
    /\ app.current_view = "Terminal"
    /\ app.terminal_session = Some(2)
    /\ app.terminal_pod_name = Some("a")
    /\ sess[1].st = "dropped"
    /\ sess[2].st = "open"

\* C35: in Scale mode the view is Deployments and in TerminalChoice mode it
\* is Pods, and a key handled in one of the two modes changes the view only
\* with the mode back to Normal.
C35_ModeFixesView ==
    /\ app.input_mode = "Scale" => app.current_view = "Deployments"
    /\ app.input_mode = "TerminalChoice" => app.current_view = "Pods"
    /\ app.input_mode # "Normal" =>
          \A key \in DashKeys \cup ModeKeys :
              \A e \in Envs(app, sess, key, ModeLists) :
                  LET r == handle_event(app, sess, key, e)
                  IN  r.app.current_view # app.current_view
                          => r.app.input_mode = "Normal"

\* The scale prompt is open on the Deployments view, a digit typed.
C35_Witness ==
    /\ app.input_mode = "Scale"
    /\ app.current_view = "Deployments"
    /\ app.input_buffer # <<>>

\* C36: in the shell view Esc, Ctrl+D, PageUp and PageDown are not passed to
\* send_input, PageUp lowering terminal_scroll by 10 down to 0 and PageDown
\* raising it by 10 with the session untouched; every other key is passed to
\* send_input, resets terminal_scroll to 0 and neither ends the loop nor
\* changes the view.
C36_ShellViewKeys ==
    (app.current_view = "Terminal" /\ app.terminal_session # None
        /\ loop.pc # "done" /\ op.kind = "none")
    => \A key \in ShellKeys \cup ModeKeys :
         \A e \in Envs(app, sess, key, ModeLists) :
           LET r == handle_event(app, sess, key, e)
               id == app.terminal_session[1]
               after == IF r.cont THEN MutexUnlock(r.sess[id]) ELSE r.sess[id]
               final == IF r.cont THEN handle_terminal_mode_rest(r.app)
                        ELSE r.app
           IN  CASE key.code = "Esc" \/ (key.code = "d" /\ key.ctrl) ->
                      r.ret = "Ok(true)"
                 [] key.code = "PageUp" ->
                      /\ r.app.terminal_scroll
                            = saturating_sub(app.terminal_scroll, ScrollStep)
                      /\ r.sess = sess
                      /\ r.ret = "Ok(true)"
                 [] key.code = "PageDown" ->
                      /\ r.app.terminal_scroll
                            = app.terminal_scroll + ScrollStep
                      /\ r.sess = sess
                      /\ r.ret = "Ok(true)"
                 [] OTHER ->
                      /\ r.ret # "Err"
                      /\ r.ret # "Ok(false)"
                      /\ final.terminal_scroll = 0
                      /\ final.current_view = "Terminal"
                      /\ after.written = sess[id].written \o encode(key)

\* The item the key acts on in this view and mode: none when the key is no
\* operation on a selected item.
Selected(a, key) ==
    LET c == key.code
        v == a.current_view
    IN  CASE a.input_mode = "Scale" /\ c = "Enter" ->
               Some(Get(a.deployments, a.deployment_index))
          [] a.input_mode = "Normal" /\ c = "d" /\ v = "Pods" ->
               Some(Get(a.pods, a.pod_index))
          [] a.input_mode = "Normal" /\ c = "d" /\ v = "Deployments" ->
               Some(Get(a.deployments, a.deployment_index))
          [] a.input_mode = "Normal" /\ c \in {"l", "e"} /\ v = "Pods" ->
               Some(Get(a.pods, a.pod_index))
          [] a.input_mode = "Normal" /\ c = "Enter" /\ v = "Clusters" ->
               Some(Get(a.contexts, a.context_index))
          [] a.input_mode = "Normal" /\ c = "Enter" /\ v = "Namespaces" ->
               Some(Get(a.namespaces, a.namespace_index))
          [] OTHER -> None

\* C37: delete, view logs, exec, Enter in scale mode, the context switch and
\* the namespace switch, with no item selected, call nothing (whatever the
\* cluster would answer, the state is as before: no message, no list
\* replaced), create no session and change neither the view nor the input
\* mode, Enter in scale mode closing the prompt.
C37_NothingSelectedNothingDone ==
    app.current_view # "Terminal" =>
      \A key \in SelectKeys : \A e \in Envs(app, sess, key, ModeLists) :
        Selected(app, key) = Some(None)
        => LET r == handle_event(app, sess, key, e)
           IN  /\ r.ret = "Ok(true)"
               /\ r.sess = sess
               /\ r.app = IF app.input_mode = "Scale"
                          THEN [app EXCEPT !.input_mode = "Normal",
                                           !.input_buffer = <<>>]
                          ELSE app
               /\ app.input_mode = "Scale" => scale_calls(app) = <<>>

\* The scale prompt holds a number and there is no deployment to scale.
C37_Witness ==
    /\ app.current_view = "Deployments"
    /\ app.input_mode = "Scale"
    /\ app.deployments = <<>>
    /\ parse_i32(app.input_buffer) # None

\* ------------------------------------------------ the shell view's window
\* Height of the tallest area the shell view is drawn in.
MaxAreaHeight == 8

\* The line lists get_terminal_screen hands to the view, the lines numbered
\* from the top.
ScreenLines == {[i \in 1..n |-> i] : n \in 0..Rows}

Least(x, y) == IF x < y THEN x ELSE y

\* render_terminal_view taking terminal_scroll as the first line shown.
render_terminal_view_unclamped(terminal_scroll, area_height, lines) ==
    LET visible_height == saturating_sub(area_height, 2)
        total_lines == Len(lines)
        scroll == terminal_scroll
        start == IF scroll = 0 /\ total_lines > visible_height
                 THEN saturating_sub(total_lines, visible_height)
                 ELSE scroll
        end == Least(start + visible_height, total_lines)
    IN  IF lines = <<>>
        THEN [start |-> 0, end |-> 0, content |-> <<"Connecting">>]
        ELSE [start |-> start, end |-> end,
              content |-> IF start <= end /\ end <= total_lines
                          THEN SubSeq(lines, start + 1, end)
                          ELSE <<"panic">>]

\* The lines render_terminal_view shows: lines[start..end], the slice
\* panicking when start > end or end > lines.len().
render_terminal_view(terminal_scroll, area_height, lines) ==
    LET visible_height == saturating_sub(area_height, 2)
        total_lines == Len(lines)
        scroll == Least(terminal_scroll,
                        saturating_sub(total_lines, visible_height))
        start == IF scroll = 0 /\ total_lines > visible_height
                 THEN saturating_sub(total_lines, visible_height)
                 ELSE scroll
        end == Least(start + visible_height, total_lines)
    IN  IF lines = <<>>
        THEN [start |-> 0, end |-> 0, content |-> <<"Connecting">>]
        ELSE [start |-> start, end |-> end,
              content |-> IF start <= end /\ end <= total_lines
                          THEN SubSeq(lines, start + 1, end)
                          ELSE <<"panic">>]

NoWindow == [start |-> 0, end |-> 0, content |-> <<>>]

\* The shell of pod a is open and shown; the area and the screen are any.
WindowInit ==
    /\ app = [App_new(<<"a">>, "a", OkList(<<"default">>), OkList(<<"a">>))
                EXCEPT !.terminal_session = Some(1),
                       !.terminal_pod_name = Some("a"),
                       !.current_view = "Terminal",
                       !.status_message = "Connected to pod"]
    /\ sess = [i \in SessionIds |->
                 IF i = 1 THEN TerminalSession_new ELSE NoSession]
    /\ \E h \in 0..MaxAreaHeight :
         loop = [pc |-> "draw", ret |-> "running", area_height |-> h]
    /\ \E lines \in ScreenLines :
         op = [Idle EXCEPT !.lines = lines] @@ [window |-> NoWindow]

\* terminal.draw in the shell view.
WindowRender ==
    /\ loop.pc = "draw"
    /\ loop' = [loop EXCEPT !.pc = "poll"]
    /\ op' = [op EXCEPT !.window = render_terminal_view(
                            app.terminal_scroll, loop.area_height, op.lines)]
    /\ UNCHANGED <<app, sess>>

\* PageUp or PageDown.
WindowKey ==
    /\ loop.pc = "poll"
    /\ \E key \in {Key("PageUp", FALSE), Key("PageDown", FALSE)} :
       \E e \in Envs(app, sess, key, {<<"a">>}) :
         /\ WithinBounds(app, sess, key)
         /\ app' = handle_event(app, sess, key, e).app
    /\ loop' = [loop EXCEPT !.pc = "draw"]
    /\ UNCHANGED <<sess, op>>

\* The terminal was resized before the next frame.
WindowResize ==
    /\ loop.pc = "poll"
    /\ \E h \in 0..MaxAreaHeight :
         /\ h # loop.area_height
         /\ loop' = [loop EXCEPT !.pc = "draw", !.area_height = h]
    /\ UNCHANGED <<app, sess, op>>

\* The shell wrote and the screen of the next frame has other lines.
WindowOutput ==
    /\ loop.pc = "poll"
    /\ \E lines \in ScreenLines :
         /\ lines # op.lines
         /\ op' = [op EXCEPT !.lines = lines]
    /\ loop' = [loop EXCEPT !.pc = "draw"]
    /\ UNCHANGED <<app, sess>>

WindowNext ==
    \/ WindowRender
    \/ WindowKey
    \/ WindowResize
    \/ WindowOutput

\* The shell view drawn for every scroll offset, area and screen.
WindowSpec == WindowInit /\ [][WindowNext]_vars

\* ------------------------------------------------- the log scroll position
\* The index of the last line of a log, 0 for an empty one.
LastIndex(logs) == IF Len(logs) = 0 THEN 0 ELSE Len(logs) - 1

\* The answers of get_pod_logs in the log view.
FollowAnswers == ListResults(FollowTexts)

\* One key of the log view or of the pods view, the logs it asks for
\* answered from FollowTexts.
AfterLogKey(key, logs) ==
    LET e == CHOOSE x \in Envs(app, sess, key, LogLists) : x.logs = ErrList
    IN  handle_event(app, sess, key, [e EXCEPT !.logs = logs]).app

\* C38: the scroll position of the log never passes the last line; opening
\* the logs of a pod sets it to 0, enabling follow and each successful
\* follow refresh set it to the last line, a failed follow refresh changes
\* nothing, and Up, k, Down and j move it by at most one line inside the log.
C38_LogScrollInBounds ==
    /\ app.logs_scroll >= 0
    /\ app.logs_scroll <= LastIndex(app.logs)
    /\ (app.current_view = "Pods" /\ app.input_mode = "Normal")
         => \A logs \in FollowAnswers :
              LET a == AfterLogKey(Key("l", FALSE), logs)
              IN  (logs.ok /\ Get(app.pods, app.pod_index) # None)
                    => /\ a.current_view = "Logs"
                       /\ a.logs = logs.items
                       /\ a.logs_scroll = 0
    /\ (app.current_view = "Logs" /\ app.input_mode = "Normal")
         => LET a == AfterLogKey(Key("f", FALSE), ErrList)
            IN  /\ a.logs_follow = ~app.logs_follow
                /\ a.logs = app.logs
                /\ a.logs_scroll = IF a.logs_follow
                                   THEN LastIndex(app.logs)
                                   ELSE app.logs_scroll
    /\ log_fetches(app) # <<>>
         => \A logs \in FollowAnswers :
              LET r == refresh_logs(app, sess, [logs |-> logs])
              IN  /\ r.ret = "Ok"
                  /\ IF logs.ok
                     THEN /\ r.app.logs = logs.items
                          /\ r.app.logs_scroll = LastIndex(logs.items)
                          /\ r.app.logs_follow
                     ELSE r.app = app
    /\ (app.current_view = "Logs" /\ app.input_mode = "Normal")
         => \A key \in ScrollKeys :
              LET a == AfterLogKey(key, ErrList)
                  to == IF key \in UpKeys
                        THEN saturating_sub(app.logs_scroll, 1)
                        ELSE IF app.logs_scroll < LastIndex(app.logs)
                             THEN app.logs_scroll + 1
                             ELSE app.logs_scroll
              IN  /\ a.logs = app.logs
                  /\ a.logs_scroll = to
                  /\ a.logs_scroll \in 0..LastIndex(app.logs)

\* Follow mode has just refreshed the log of the pod to its longest answer
\* and followed it to its last line.
C38_Witness ==
    /\ app.current_view = "Logs"
    /\ app.logs_follow
    /\ Len(app.logs) = MaxFollowLines
    /\ app.logs_scroll = MaxFollowLines - 1

\* ------------------------------------------------------- the scale prompt
\* The keys pressed on the scale prompt: those of the model and others that
\* are no digit.
PromptKeys == ScaleKeys \cup {Key(c, FALSE) : c \in {"x", "q", "-", "Up"}}

AllDigits(buf) == \A i \in 1..Len(buf) : buf[i] \in Digits

\* The dashboard with the prompt closed and nothing else changed.
PromptClosed == [app EXCEPT !.input_mode = "Normal", !.input_buffer = <<>>]

\* C39: the buffer of the scale prompt holds ASCII digits only; a key calls
\* scale_deployment only if it is Enter on a non-empty buffer whose value
\* fits an i32, and then with that value; Esc, Enter on an empty buffer and
\* Enter on a value above 2^31 - 1 call nothing and close the prompt.
C39_ScalePrompt ==
    /\ AllDigits(app.input_buffer)
    /\ (app.current_view # "Terminal" /\ app.input_mode = "Scale") =>
         \A key \in PromptKeys : \A e \in Envs(app, sess, key, ScaleLists) :
           LET r == handle_event(app, sess, key, e)
               buf == app.input_buffer
               calls == AfterScale(app, key, op).scaled
               fits == buf # <<>> /\ Fits(buf)
           IN  /\ AllDigits(r.app.input_buffer)
               /\ calls # <<>> =>
                    /\ key.code = "Enter"
                    /\ fits
                    /\ Len(calls) = 1
                    /\ calls[1].replicas = Value(buf)
               /\ (key.code = "Esc" \/ (key.code = "Enter" /\ ~fits)) =>
                    /\ calls = <<>>
                    /\ r.app = PromptClosed
                    /\ r.ret = "Ok(true)"
    /\ ~(app.current_view # "Terminal" /\ app.input_mode = "Scale") =>
         \A key \in PromptKeys : AfterScale(app, key, op).scaled = <<>>

\* The prompt holds ten digits above 2^31 - 1 and a deployment is selected.
C39_Witness ==
    /\ app.input_mode = "Scale"
    /\ Len(app.input_buffer) = Len(I32MaxDigits)
    /\ ~Fits(app.input_buffer)
    /\ Get(app.deployments, app.deployment_index) # None

\* ------------------------------------------------- the window of the shell
\* The frame on the terminal is the one of this state.
Drawn == loop.pc = "poll" /\ op.lines # <<>>

\* C40: for every scroll offset, every height of the area and every
\* non-empty list of lines, the window drawn has 0 <= start <= end <= the
\* number of lines and at most the visible height of lines; with the offset
\* 0 and more lines than fit it is the last lines of the screen.
C40_WindowInBounds ==
    Drawn =>
        LET w == op.window
            total_lines == Len(op.lines)
            visible_height == IF loop.area_height > 2
                              THEN loop.area_height - 2 ELSE 0
        IN  /\ 0 <= w.start
            /\ w.start <= w.end
            /\ w.end <= total_lines
            /\ w.end - w.start <= visible_height
            /\ w.content = [k \in 1..(w.end - w.start) |-> w.start + k]
            /\ (app.terminal_scroll = 0 /\ total_lines > visible_height)
                 => /\ w.end = total_lines
                    /\ w.start = total_lines - visible_height

\* A frame drawn after PageDown with more than a page of lines above the
\* offset: the window starts at the offset.
C40_Witness ==
    /\ Drawn
    /\ app.terminal_scroll = ScrollStep
    /\ op.window.start = ScrollStep
    /\ Len(op.lines) = Rows
    /\ op.window.end - op.window.start = loop.area_height - 2

====
